---- MODULE Spec2Model ----
(***************************************************************************)
(* A model of cgex: the extraction and reconstruction pipeline of          *)
(* src/src/main.rs and the variant registry of src/src/game_extractor.rs.  *)
(*                                                                         *)
(* File names are TLA+ strings handled character by character, so that     *)
(* case folding, extension matching, path ordering and the "--" / "__"     *)
(* demangling are computed the way the Rust standard library computes      *)
(* them.  A directory tree is a record                                     *)
(*     [exists, files : relative path -> content, dirs : set of paths]     *)
(* where a relative path is a sequence of component strings.               *)
(***************************************************************************)
EXTENDS Integers, Sequences, FiniteSets, TLC

VARIABLES
    det,    \* detection on its own: [input, phase, result]
    dd,     \* deduplication on its own: the pool before and after each run
    mv,     \* relocation on its own: one file, its destination and both trees
    im,     \* process_image on its own: the input image, the flags, the result
    wr,     \* MulleBil::run_extractor on its own: its three threads
    pr,     \* prepare_temp_directory on its own: the directory before and after
    rn,     \* consecutive runs of main: the working directories they leave in /tmp
    pc,               \* the statement of main that runs next
    args,             \* Args: [no_compression, no_upscale]
    input_dir,        \* the tree under --input-dir
    extractor_tools,  \* the tree under ./extractor_tools
    game,             \* the result of detect_game
    temp_dir,         \* the tree under the working directory cgex_<pid>
    out_tree,         \* the tree under --output-dir
    procs,            \* the subprocesses launched so far, in launch order
    archives,         \* extract_files: dir_files as found, and the loop index
    images,           \* the image batch: [todo, ok, failed]
    processed_files,  \* Vec<(PathBuf, ImageFormat)> collected from the batch
    moves,            \* the relocation loops: wav_files as found, and the loop index
    error,            \* the error main returned with, if any
    log,              \* the warnings printed so far
    hist              \* history: what the run has done (for the properties)

harness == <<det, dd, mv, im, wr, pr, rn>>
pipeline == <<pc, args, input_dir, extractor_tools, game, temp_dir, out_tree, procs,
              archives, images, processed_files, moves, error, log, hist>>
vars == <<det, dd, mv, im, wr, pr, rn, pc, args, input_dir, extractor_tools, game, temp_dir, out_tree,
          procs, archives, images, processed_files, moves, error, log, hist>>

(***************************************************************************)
(* Strings                                                                 *)
(***************************************************************************)

\* The ASCII characters from '-' (45) to '_' (95) and from 'a' (97) to 'z'
\* (122), each run in code order.
AsciiFromDash == "-./0123456789:;<=>?@ABCDEFGHIJKLMNOPQRSTUVWXYZ[\\]^_"
AsciiLower == "abcdefghijklmnopqrstuvwxyz"

Chars ==
    {SubSeq(AsciiFromDash, i, i) : i \in 1..Len(AsciiFromDash)}
        \cup {SubSeq(AsciiLower, i, i) : i \in 1..Len(AsciiLower)}

IndexIn(table, c) == CHOOSE i \in 1..Len(table) : SubSeq(table, i, i) = c

\* The byte value of each one-character string.
CodeOf ==
    [c \in Chars |->
        IF \E i \in 1..Len(AsciiLower) : SubSeq(AsciiLower, i, i) = c
        THEN 96 + IndexIn(AsciiLower, c)
        ELSE 44 + IndexIn(AsciiFromDash, c)]

Code(c) == CodeOf[c]

Chr(n) ==
    IF n >= 97 THEN SubSeq(AsciiLower, n - 96, n - 96)
    ELSE SubSeq(AsciiFromDash, n - 44, n - 44)

\* char::to_ascii_lowercase / the ASCII part of char::to_lowercase, for
\* each character: 'A'..'Z' (65..90) are moved up by 32.
LowerOf ==
    [c \in Chars |-> IF CodeOf[c] >= 65 /\ CodeOf[c] <= 90 THEN Chr(CodeOf[c] + 32) ELSE c]

to_lowercase_char(c) == LowerOf[c]

RECURSIVE to_lowercase(_)
\* str::to_lowercase, on ASCII names
to_lowercase(s) ==
    IF s = "" THEN "" ELSE to_lowercase_char(Head(s)) \o to_lowercase(Tail(s))

\* OsStr::eq_ignore_ascii_case
eq_ignore_ascii_case(a, b) == to_lowercase(a) = to_lowercase(b)

RECURSIVE StrLess(_, _)
\* Ord for str / OsStr: bytewise lexicographic order
StrLess(a, b) ==
    IF a = "" THEN b # ""
    ELSE IF b = "" THEN FALSE
    ELSE IF Head(a) = Head(b) THEN StrLess(Tail(a), Tail(b))
    ELSE Code(Head(a)) < Code(Head(b))

starts_with(s, p) == Len(s) >= Len(p) /\ SubSeq(s, 1, Len(p)) = p

\* The index of the first occurrence of pat in s, 0 when there is none.
FindStr(s, pat) ==
    LET hits == {i \in 1..(Len(s) - Len(pat) + 1) : SubSeq(s, i, i + Len(pat) - 1) = pat}
    IN  IF hits = {} THEN 0 ELSE CHOOSE i \in hits : \A j \in hits : i <= j

\* The index of the last occurrence of pat in s, 0 when there is none.
RFindStr(s, pat) ==
    LET hits == {i \in 1..(Len(s) - Len(pat) + 1) : SubSeq(s, i, i + Len(pat) - 1) = pat}
    IN  IF hits = {} THEN 0 ELSE CHOOSE i \in hits : \A j \in hits : i >= j

RECURSIVE split(_, _)
\* str::split(pat): the pieces between the leftmost non-overlapping matches
split(s, pat) ==
    LET i == FindStr(s, pat)
    IN  IF i = 0 THEN <<s>>
        ELSE <<SubSeq(s, 1, i - 1)>> \o split(SubSeq(s, i + Len(pat), Len(s)), pat)

RECURSIVE join(_, _)
\* [&str]::join(sep)
join(parts, sep) ==
    IF Len(parts) = 0 THEN ""
    ELSE IF Len(parts) = 1 THEN parts[1]
    ELSE parts[1] \o sep \o join(Tail(parts), sep)

(***************************************************************************)
(* Paths (std::path)                                                       *)
(***************************************************************************)

None == [some |-> FALSE, val |-> ""]
Some(v) == [some |-> TRUE, val |-> v]

\* Path::file_stem / Path::extension split the file name at its last dot;
\* a name whose only dot is its first character has no extension, ".." has
\* neither.
extension(name) ==
    LET i == RFindStr(name, ".")
    IN  IF name = ".." \/ i <= 1 THEN None
        ELSE Some(SubSeq(name, i + 1, Len(name)))

file_stem(name) ==
    LET i == RFindStr(name, ".")
    IN  IF name = ".." \/ i <= 1 THEN name ELSE SubSeq(name, 1, i - 1)

\* A tree that does not exist on disk.
NoTree == [exists |-> FALSE, files |-> <<>>, dirs |-> {}]

IsPrefix(p, q) == Len(p) <= Len(q) /\ SubSeq(q, 1, Len(p)) = p

\* The file name (last component) of a relative path.
file_name(p) == p[Len(p)]

(***************************************************************************)
(* Variant registry (game_extractor.rs)                                    *)
(***************************************************************************)

JonssonMjolner == "JonssonMjolner"
JonssonDjupet == "JonssonDjupet"
MulleBil == "MulleBil"

\* The implementations of the GameExtractor trait, in declaration order.
GameExtractor == <<JonssonMjolner, JonssonDjupet, MulleBil>>

MjolnerExpected ==
    { "anslagstavla.dir", "block.dir", "dorislapp.dir", "glidflygare.dir",
      "heden.dir", "kassaskap.dir", "monalisa.dir", "paris.dir", "setup.dir",
      "souvenir.dir", "tavla.dir", "tidningsbutik.dir", "wtavla.dir",
      "berlin.dir", "container.dir", "drottningtavla.dir", "gotland.dir",
      "huvudmeny.dir", "london.dir", "nrspel.dir", "rom.dir", "sheild.dir",
      "stockholm.dir", "telefonbok.dir", "wsafe.dir" }

DjupetExpected == { "avi.dir", "game.dir", "mainmenu.dir", "qt.dir" }

MulleBilExpected ==
    { "02.dxr", "03.dxr", "04.dxr", "05.dxr", "06.dxr", "08.dxr", "10.dxr",
      "12.dxr", "13.dxr", "18.dxr", "82.dxr", "83.dxr", "84.dxr", "85.dxr",
      "86.dxr", "87.dxr", "88.dxr", "89.dxr", "90.dxr", "91.dxr", "92.dxr",
      "93.dxr", "94.dxr", "lbstart.dxr", "unload.dxr" }

\* The .iter().map(|&s| s.to_lowercase()).collect() of each list.
ExpectedFiles ==
    [v \in {JonssonMjolner, JonssonDjupet, MulleBil} |->
        {to_lowercase(f) : f \in CASE v = JonssonMjolner -> MjolnerExpected
                                   [] v = JonssonDjupet -> DjupetExpected
                                   [] v = MulleBil -> MulleBilExpected}]

\* GameExtractor::get_expected_files
get_expected_files(variant) == ExpectedFiles[variant]

\* GameExtractor::get_transparent_color
get_transparent_color(variant) ==
    CASE variant = JonssonMjolner -> <<255, 255, 255>>
      [] variant = JonssonDjupet -> <<255, 0, 255>>
      [] variant = MulleBil -> <<0, 0, 0>>

\* GameExtractor::get_broken_images
get_broken_images(variant) ==
    CASE variant = JonssonMjolner ->
            << "berlin--Animationer__harry0000-166.bmp",
               "berlin--Animationer__ingo0000-80.bmp",
               "berlin--Animationer__ingo0041-121.bmp",
               "berlin--Animationer__ingo0042-122.bmp",
               "berlin--Animationer__sickan0000-37.bmp",
               "berlin--Animationer__sickan0001-38.bmp",
               "berlin--Animationer__sickan0042.bmp",
               "berlin--Animationer__vanheden0000-123.bmp",
               "berlin--Animationer__vanheden0042-165.bmp" >>
      [] variant = JonssonDjupet -> << "Mainmenu--Internal__m_birdanim2_12-473.bmp" >>
      [] variant = MulleBil -> << "02--00__Dummy-2.bmp" >>

(***************************************************************************)
(* Variant detection (main.rs)                                             *)
(***************************************************************************)

\* find_dir_files: every file below dir (at any depth) whose extension is
\* "dir" in any letter case; nothing when dir is not a directory.
find_dir_files(dir) ==
    IF ~dir.exists THEN {}
    ELSE {p \in DOMAIN dir.files :
            LET ext == extension(file_name(p))
            IN  ext.some /\ eq_ignore_ascii_case(ext.val, "dir")}

\* The two lists that detect_game builds for itself.
jonsson_mjolner_files == {to_lowercase(f) : f \in MjolnerExpected}
jonsson_djupet_files == {to_lowercase(f) : f \in DjupetExpected}

NoWarning == [found |-> 0, expected |-> 0]

\* A variant of DetectOk that prints no shortfall warning.
DetectOkSilent(variant, count, expected) ==
    [ok |-> TRUE, game |-> variant, warning |-> NoWarning, err |-> ""]

\* main.rs:92-103  the selected variant, with the warning "Only found {count}
\* out of {expected} expected files" when count < expected.
DetectOk(variant, count, expected) ==
    [ok |-> TRUE, game |-> variant,
     warning |-> IF count < expected THEN [found |-> count, expected |-> expected]
                 ELSE NoWarning,
     err |-> ""]

DetectErr(e) == [ok |-> FALSE, game |-> "", warning |-> NoWarning, err |-> e]

ErrReadDir == "read_dir failed"
ErrNoMatch == "Unable to detect variant type. No matching .dir files found."

\* A variant of detect_game in which a tie goes to the first list.
detect_game_tie_first(root, readOk) ==
    IF root.exists /\ ~readOk THEN DetectErr(ErrReadDir)
    ELSE
        LET found_files == {to_lowercase(file_name(p)) : p \in find_dir_files(root)}
            game_a_match == Cardinality(jonsson_mjolner_files \cap found_files)
            game_b_match == Cardinality(jonsson_djupet_files \cap found_files)
        IN  IF game_a_match >= game_b_match /\ game_a_match > 0
            THEN DetectOk(JonssonMjolner, game_a_match, Cardinality(jonsson_mjolner_files))
            ELSE IF game_b_match > 0
            THEN DetectOk(JonssonDjupet, game_b_match, Cardinality(jonsson_djupet_files))
            ELSE DetectErr(ErrNoMatch)

\* A variant of detect_game that falls back on the second variant when
\* nothing matches.
detect_game_with_default(root, readOk) ==
    IF root.exists /\ ~readOk THEN DetectErr(ErrReadDir)
    ELSE
        LET found_files == {to_lowercase(file_name(p)) : p \in find_dir_files(root)}
            game_a_match == Cardinality(jonsson_mjolner_files \cap found_files)
            game_b_match == Cardinality(jonsson_djupet_files \cap found_files)
        IN  IF game_a_match > game_b_match
            THEN DetectOk(JonssonMjolner, game_a_match, Cardinality(jonsson_mjolner_files))
            ELSE DetectOk(JonssonDjupet, game_b_match, Cardinality(jonsson_djupet_files))

\* detect_game.  readOk is whether the directory reads of find_dir_files
\* succeed (they are only attempted when root is a directory).
detect_game(root, readOk) ==
    IF root.exists /\ ~readOk THEN DetectErr(ErrReadDir)
    ELSE
        LET dir_files == find_dir_files(root)
            found_files == {to_lowercase(file_name(p)) : p \in dir_files}
            game_a_match == Cardinality(jonsson_mjolner_files \cap found_files)
            game_b_match == Cardinality(jonsson_djupet_files \cap found_files)
        IN  IF game_a_match > game_b_match
            THEN DetectOk(JonssonMjolner, game_a_match, Cardinality(jonsson_mjolner_files))
            ELSE IF game_b_match > 0
            THEN DetectOk(JonssonDjupet, game_b_match, Cardinality(jonsson_djupet_files))
            ELSE DetectErr(ErrNoMatch)

(***************************************************************************)
(* Detection on its own: SpecDetect applies detect_game to bounded trees.  *)
(***************************************************************************)

\* The largest number of files in an input tree of SpecDetect.
MaxInputFiles == 4

\* Where a file of the input tree may lie.
DetectPaths ==
    { <<"berlin.dir">>, <<"Data", "BERLIN.DIR">>, <<"Data", "paris.dir">>,
      <<"Data", "game.dir">>, <<"Data", "Qt.Dir">>, <<"Data", "avi.dir">>,
      <<"Data", "MainMenu.dir">>,
      <<"Data", "02.dxr">>, <<"Data", "03.DXR">>, <<"Data", "x.dir">>,
      <<"Data", "berlin.txt">>, <<"readme">> }

\* The directories that a set of file paths lies in.
ParentDirs(paths) == UNION {{SubSeq(p, 1, n) : n \in 1..(Len(p) - 1)} : p \in paths}

TreeOfFiles(paths) ==
    [exists |-> TRUE, files |-> [p \in paths |-> 1], dirs |-> ParentDirs(paths)]

DetectTrees ==
    {NoTree} \cup
    {TreeOfFiles(S) : S \in {T \in SUBSET DetectPaths : Cardinality(T) <= MaxInputFiles}}

DetectIdle == [input |-> NoTree, phase |-> "idle", result |-> DetectErr("")]
DedupIdle ==
    [phase |-> "idle", dir |-> NoTree, prev |-> NoTree, runs |-> 0,
     lastOk |-> FALSE, prevOk |-> FALSE, prevRemoved |-> 0]
MoveIdle ==
    [phase |-> "idle", name |-> "", ext |-> None, temp |-> NoTree, out |-> NoTree,
     dst |-> "", ok |-> FALSE]

ImageIdle == [phase |-> "idle"]
WrapperIdle == [phase |-> "idle"]
PrepareIdle == [phase |-> "idle"]
RunsIdle == [phase |-> "idle"]

NoError == [stage |-> "", subject |-> ""]
NoArchives == [found |-> <<>>, next |-> 1]
NoImages == [todo |-> {}, ok |-> {}, failed |-> {}]
NoMoves == [wav_files |-> <<>>, next |-> 1]
NoHistory ==
    [temp_created |-> FALSE,  \* the working directory was created
     extracted |-> NoTree,    \* the working directory when extraction ended
     dedup |-> "",            \* how remove_duplicates ended: "ok" or "failed"
     purge |-> <<>>,          \* what became of each listed broken image
     calls |-> <<>>]          \* the function called for each archive to extract

\* The pipeline variables while main is not being run.
PipelineIdle ==
    /\ pc = "idle"
    /\ args = [no_compression |-> FALSE, no_upscale |-> FALSE]
    /\ input_dir = NoTree
    /\ extractor_tools = NoTree
    /\ game = DetectErr("")
    /\ temp_dir = NoTree
    /\ out_tree = NoTree
    /\ procs = <<>>
    /\ archives = NoArchives
    /\ images = NoImages
    /\ processed_files = <<>>
    /\ moves = NoMoves
    /\ error = NoError
    /\ log = <<>>
    /\ hist = NoHistory

InitDetect ==
    /\ det \in {[input |-> t, phase |-> "ready", result |-> DetectErr("")] : t \in DetectTrees}
    /\ dd = DedupIdle
    /\ mv = MoveIdle
    /\ im = ImageIdle
    /\ wr = WrapperIdle
    /\ pr = PrepareIdle
    /\ rn = RunsIdle
    /\ PipelineIdle

\* One call of detect_game on the chosen tree.
RunDetect ==
    /\ det.phase = "ready"
    /\ \E readOk \in BOOLEAN :
          det' = [det EXCEPT !.phase = "detected",
                             !.result = detect_game(det.input, readOk)]
    /\ UNCHANGED <<dd, mv, im, wr, pr, rn, pipeline>>

NextDetect == RunDetect

SpecDetect == InitDetect /\ [][NextDetect]_vars

\* The archive file names of a tree, case-folded: files with extension
\* "dir" or "dxr" in any letter case.
ArchiveNames(tree) ==
    IF ~tree.exists THEN {}
    ELSE {to_lowercase(file_name(p)) : p \in
            {q \in DOMAIN tree.files :
                LET ext == extension(file_name(q))
                IN  ext.some /\ to_lowercase(ext.val) \in {"dir", "dxr"}}}

Score(variant, tree) ==
    Cardinality(get_expected_files(variant) \cap ArchiveNames(tree))

Registered == {GameExtractor[i] : i \in DOMAIN GameExtractor}

BestScore(tree) ==
    CHOOSE n \in {Score(g, tree) : g \in Registered} :
        \A g \in Registered : Score(g, tree) <= n

\* C1: for every found set of archive names, detection selects the
\* registered variant (Mjolner, Djupet, Mulle Bil) whose expected-file set
\* has the greatest intersection with the found set.
C1_SelectsGreatestOverlap ==
    (det.phase = "detected" /\ det.result.err # ErrReadDir /\ BestScore(det.input) > 0)
        => /\ det.result.ok
           /\ Score(det.result.game, det.input) = BestScore(det.input)

\* C21: when detection selects a variant its score is positive; when the
\* score is less than the number of the variant's expected files, the result
\* carries one shortfall warning with exactly that score and that number;
\* when the score equals the number of expected files there is no warning.
C21_ShortfallWarningHasExactCounts ==
    (det.phase = "detected" /\ det.result.ok)
        => LET score == Score(det.result.game, det.input)
               expected == Cardinality(get_expected_files(det.result.game))
           IN  /\ score > 0
               /\ score <= expected
               /\ (score < expected)
                    => det.result.warning = [found |-> score, expected |-> expected]
               /\ (score = expected) => det.result.warning = NoWarning

\* C21 happens: Djupet is selected on two of its four archives and warned
\* about with the counts 2 and 4.
C21_Witness ==
    /\ det.phase = "detected"
    /\ det.result.ok
    /\ det.result.game = JonssonDjupet
    /\ Score(JonssonDjupet, det.input) = 2
    /\ det.result.warning = [found |-> 2, expected |-> 4]

\* All four archives of Djupet found: selected, no warning.
C21_FullMatch ==
    /\ det.phase = "detected"
    /\ det.result.ok
    /\ Score(det.result.game, det.input) = Cardinality(get_expected_files(det.result.game))
    /\ det.result.warning = NoWarning

Restrict(f, S) == [x \in S |-> f[x]]

\* fs::remove_file
RemoveFile(tree, p) == [tree EXCEPT !.files = Restrict(@, DOMAIN @ \ {p})]

\* The entries directly inside the root of a tree that are regular files
\* (fs::read_dir followed by a filter on Path::is_file).
TopLevelFiles(tree) == {p \in DOMAIN tree.files : Len(p) = 1}

RECURSIVE PathLess(_, _)
\* Ord for Path: component by component, each component bytewise.
PathLess(p, q) ==
    IF Len(p) = 0 THEN Len(q) > 0
    ELSE IF Len(q) = 0 THEN FALSE
    ELSE IF p[1] = q[1] THEN PathLess(Tail(p), Tail(q))
    ELSE StrLess(p[1], q[1])

RECURSIVE sort_paths_descending(_)
\* A sort that orders paths the wrong way round.
sort_paths_descending(S) ==
    IF S = {} THEN <<>>
    ELSE LET last == CHOOSE p \in S : \A q \in S \ {p} : PathLess(q, p)
         IN  <<last>> \o sort_paths_descending(S \ {last})

RECURSIVE sort_paths(_)
\* Vec<PathBuf>::sort / sort_by_key(|e| e.path()): ascending path order
sort_paths(S) ==
    IF S = {} THEN <<>>
    ELSE LET first == CHOOSE p \in S : \A q \in S \ {p} : PathLess(p, q)
         IN  <<first>> \o sort_paths(S \ {first})

(***************************************************************************)
(* Deduplication (main.rs)                                                 *)
(***************************************************************************)

\* hash_file: the SHA-256 digest of a file's content in upper-case hex.
\* Distinct contents have distinct digests (no collision is modelled).
hash_file(content) == <<"SHA256", content>>

IoOk(tree) == [ok |-> TRUE, tree |-> tree]
IoErr(tree) == [ok |-> FALSE, tree |-> tree]

RECURSIVE DedupLoopFirstOnly(_, _, _, _, _)
\* A loop that returns as soon as it has removed one duplicate.
DedupLoopFirstOnly(files, i, set, tree, failAt) ==
    IF i > Len(files) THEN IoOk(tree)
    ELSE IF i = failAt THEN IoErr(tree)
    ELSE LET hash == hash_file(tree.files[files[i]])
         IN  IF hash \in set
             THEN IoOk(RemoveFile(tree, files[i]))
             ELSE DedupLoopFirstOnly(files, i + 1, set \cup {hash}, tree, failAt)

RECURSIVE DedupLoop(_, _, _, _, _)
\* The loop of remove_duplicates over the sorted files, from index i on,
\* with the set of digests seen so far.  failAt is the index of the file at
\* which hash_file or fs::remove_file fails (0: none does).
DedupLoop(files, i, set, tree, failAt) ==
    IF i > Len(files) THEN IoOk(tree)
    ELSE IF i = failAt THEN IoErr(tree)
    ELSE LET hash == hash_file(tree.files[files[i]])
         IN  IF hash \in set
             THEN DedupLoop(files, i + 1, set, RemoveFile(tree, files[i]), failAt)
             ELSE DedupLoop(files, i + 1, set \cup {hash}, tree, failAt)

\* remove_duplicates.  readOk: fs::read_dir succeeds; failAt as in DedupLoop.
remove_duplicates(path, readOk, failAt) ==
    IF ~path.exists \/ ~readOk THEN IoErr(path)
    ELSE DedupLoop(sort_paths(TopLevelFiles(path)), 1, {}, path, failAt)

(***************************************************************************)
(* Deduplication on its own: SpecDedup runs remove_duplicates, repeatedly, *)
(* on bounded pools.                                                       *)
(***************************************************************************)

\* The largest number of files in a pool of SpecDedup.
MaxPoolFiles == 3
\* The number of distinct file contents in a pool of SpecDedup.
MaxContent == 2
\* How many times in a row SpecDedup runs remove_duplicates.
MaxDedupRuns == 2

\* Where a file of the pool may lie: flat files in byte order "B.bmp",
\* "a--b.wav", "a.bmp", "b.bmp", and one file inside a subdirectory.
DedupPaths ==
    { <<"a.bmp">>, <<"B.bmp">>, <<"b.bmp">>, <<"a--b.wav">>, <<"Xtras", "a.bmp">> }

DedupPools ==
    UNION { {[exists |-> TRUE, files |-> f, dirs |-> ParentDirs(S)] :
                f \in [S -> 1..MaxContent]} :
            S \in {T \in SUBSET DedupPaths : Cardinality(T) <= MaxPoolFiles} }

InitDedup ==
    /\ dd \in {[phase |-> "ready", dir |-> t, prev |-> t, runs |-> 0,
                lastOk |-> FALSE, prevOk |-> FALSE, prevRemoved |-> 0] :
                    t \in DedupPools}
    /\ det = DetectIdle
    /\ mv = MoveIdle
    /\ im = ImageIdle
    /\ wr = WrapperIdle
    /\ pr = PrepareIdle
    /\ rn = RunsIdle
    /\ PipelineIdle

\* One call of remove_duplicates on the pool as the previous call left it.
RunDedup ==
    /\ dd.phase \in {"ready", "ran"}
    /\ dd.runs < MaxDedupRuns
    /\ \E readOk \in BOOLEAN, failAt \in 0..Cardinality(TopLevelFiles(dd.dir)) :
          LET r == remove_duplicates(dd.dir, readOk, failAt)
          IN  dd' = [phase |-> "ran", dir |-> r.tree, prev |-> dd.dir,
                     runs |-> dd.runs + 1, lastOk |-> r.ok, prevOk |-> dd.lastOk,
                     prevRemoved |-> Cardinality(DOMAIN dd.prev.files)
                                        - Cardinality(DOMAIN dd.dir.files)]
    /\ UNCHANGED <<det, mv, im, wr, pr, rn, pipeline>>

NextDedup == RunDedup

SpecDedup == InitDedup /\ [][NextDedup]_vars

\* The files of a pool whose digest is d.
WithDigest(tree, d) == {p \in TopLevelFiles(tree) : hash_file(tree.files[p]) = d}

\* C8: after remove_duplicates completes on a flat pool, exactly one file
\* survives per distinct content digest (so no two survivors share one), the
\* survivor of each group is its earliest member in sorted path order, and
\* nothing else changes.
C8_OneSurvivorPerDigest ==
    (dd.phase = "ran" /\ dd.lastOk) =>
        /\ \A p \in TopLevelFiles(dd.prev) :
              LET group == WithDigest(dd.prev, hash_file(dd.prev.files[p]))
                  kept == group \cap DOMAIN dd.dir.files
              IN  /\ Cardinality(kept) = 1
                  /\ \A k \in kept : \A q \in group \ {k} : PathLess(k, q)
        /\ \A p \in TopLevelFiles(dd.dir), q \in TopLevelFiles(dd.dir) :
              p # q => hash_file(dd.dir.files[p]) # hash_file(dd.dir.files[q])
        /\ DOMAIN dd.dir.files \subseteq DOMAIN dd.prev.files
        /\ \A p \in DOMAIN dd.dir.files : dd.dir.files[p] = dd.prev.files[p]
        /\ \A p \in DOMAIN dd.prev.files : Len(p) > 1 => p \in DOMAIN dd.dir.files

\* A completed run that removed the later members of a group of three.
C8_Witness ==
    /\ dd.phase = "ran" /\ dd.lastOk
    /\ \E p \in TopLevelFiles(dd.dir) :
          Cardinality(WithDigest(dd.prev, hash_file(dd.prev.files[p]))) >= 2
    /\ Cardinality(TopLevelFiles(dd.dir)) >= 2

\* C9: deduplication is idempotent: a run of remove_duplicates immediately
\* after a successful run deletes no file and leaves the pool unchanged.
C9_DedupIdempotent ==
    (dd.phase = "ran" /\ dd.runs >= 2 /\ dd.prevOk /\ dd.lastOk) => dd.dir = dd.prev

\* A second successful run after a first one that removed duplicates.
C9_Witness ==
    /\ dd.phase = "ran" /\ dd.runs >= 2 /\ dd.prevOk /\ dd.lastOk
    /\ dd.prevRemoved >= 1
    /\ dd.dir = dd.prev

(***************************************************************************)
(* Path reconstruction (main.rs, move_file_to_output)                      *)
(***************************************************************************)

ends_with(s, p) == Len(s) >= Len(p) /\ SubSeq(s, Len(s) - Len(p) + 1, Len(s)) = p

\* PathBuf::push of a relative component: a separator is added unless the
\* buffer is empty or already ends with one; an absolute component replaces
\* the buffer.
push(buf, c) ==
    IF starts_with(c, "/") THEN c
    ELSE IF buf = "" \/ ends_with(buf, "/") THEN buf \o c
    ELSE buf \o "/" \o c

RECURSIVE extend(_, _)
\* PathBuf::extend: push every item in order
extend(buf, items) ==
    IF Len(items) = 0 THEN buf ELSE extend(push(buf, items[1]), Tail(items))

RECURSIVE DropCurDir(_)
DropCurDir(cs) ==
    IF Len(cs) = 0 THEN <<>>
    ELSE IF cs[1] \in {"", "."} THEN DropCurDir(Tail(cs))
    ELSE <<cs[1]>> \o DropCurDir(Tail(cs))

\* Path::components of a relative path: empty components and "." (other
\* than a leading one) are skipped, ".." is kept.  Two paths are equal as
\* Paths when their components are.
components(path) ==
    LET cs == split(path, "/")
    IN  IF cs[1] = "." THEN <<".">> \o DropCurDir(Tail(cs)) ELSE DropCurDir(cs)

LastNormal(cs) ==
    IF Len(cs) = 0 \/ cs[Len(cs)] \in {".", ".."} THEN None ELSE Some(cs[Len(cs)])

\* Path::file_name: the last component when it is a normal one
path_file_name(path) == LastNormal(components(path))

RECURSIVE StripTrailing(_)
\* The path text up to the end of its last component.
StripTrailing(path) ==
    IF ends_with(path, "/") THEN StripTrailing(SubSeq(path, 1, Len(path) - 1))
    ELSE IF ends_with(path, "/.") THEN StripTrailing(SubSeq(path, 1, Len(path) - 2))
    ELSE path

ReplaceExtension(body, name, ext) ==
    SubSeq(body, 1, Len(body) - Len(name))
        \o file_stem(name) \o (IF ext = "" THEN "" ELSE "." \o ext)

SetExtensionOf(path, name, ext) ==
    IF ~name.some THEN path ELSE ReplaceExtension(StripTrailing(path), name.val, ext)

\* PathBuf::set_extension: nothing without a file name; otherwise the buffer
\* is cut right after the file stem and "." and the extension are appended.
set_extension(path, ext) == SetExtensionOf(path, path_file_name(path), ext)

\* The root that relocated files go under (the default of --output-dir).
output_dir == "output"

\* A leaf name that keeps its leading '-'.
final_name_keep_dash(joined) == joined

\* main.rs:254-257  the leaf name: one leading '-' is removed
final_name(joined) == IF starts_with(joined, "-") THEN Tail(joined) ELSE joined

\* main.rs:251-261  below the directories of the "--" segments, the last
\* segment split on "__"
DstOfLast(dirs, last, file_parts) ==
    IF Len(file_parts) > 1
    THEN push(push(dirs, file_parts[1]), final_name(join(Tail(file_parts), "__")))
    ELSE push(dirs, last)

\* main.rs:245-264  dst_path before the extension override
DstOfParts(parts, name, root) ==
    IF Len(parts) > 1
    THEN DstOfLast(extend(root, SubSeq(parts, 1, Len(parts) - 1)),
                   parts[Len(parts)], split(parts[Len(parts)], "__"))
    ELSE push(root, name)

\* main.rs:266-268  the extension override
WithExtension(dst, ext) == IF ext.some THEN set_extension(dst, ext.val) ELSE dst

\* The destination path that move_file_to_output builds for a file name
\* (main.rs:245-268): the text of dst_path.
demangle(name, root, ext) == WithExtension(DstOfParts(split(name, "--"), name, root), ext)

\* The components of a path below the output root.
BelowRoot(path) ==
    LET cs == components(path)
        n == Len(components(output_dir))
    IN  SubSeq(cs, n + 1, Len(cs))

\* Path::parent, by components
parent(cs) == SubSeq(cs, 1, Len(cs) - 1)

\* fs::create_dir_all below a tree's root
CreateDirAll(tree, dir) ==
    [tree EXCEPT !.exists = TRUE,
                 !.dirs = @ \cup {SubSeq(dir, 1, n) : n \in 1..Len(dir)}]

WriteFile(tree, p, content) ==
    [tree EXCEPT !.files = [q \in DOMAIN @ \cup {p} |-> IF q = p THEN content ELSE @[q]]]

MoveOk(temp, out, dst) == [ok |-> TRUE, temp |-> temp, out |-> out, dst |-> dst]
MoveErr(temp, out, dst) == [ok |-> FALSE, temp |-> temp, out |-> out, dst |-> dst]

\* Neither fs::rename nor fs::copy can write to a destination that names no
\* regular file: one ending in a separator, "." or "..", the root itself or
\* an existing directory.
Writable(out, dst, at) ==
    /\ path_file_name(dst).some
    /\ ~ends_with(dst, "/") /\ ~ends_with(dst, "/.")
    /\ Len(at) > 0
    /\ at \notin out.dirs

\* main.rs:270-273  the parents of the destination are created, then the
\* file is renamed, or copied when the rename fails.
MoveTo(temp, out, src, io, dst, at) ==
    IF ~io.mkdir THEN MoveErr(temp, out, dst)
    ELSE IF Writable(out, dst, at) /\ io.rename
    THEN MoveOk(RemoveFile(temp, src),
                WriteFile(CreateDirAll(out, parent(at)), at, temp.files[src]), dst)
    ELSE IF Writable(out, dst, at) /\ io.copy
    THEN MoveOk(temp, WriteFile(CreateDirAll(out, parent(at)), at, temp.files[src]), dst)
    ELSE MoveErr(temp, CreateDirAll(out, parent(at)), dst)

MoveToDst(temp, out, src, io, dst) ==
    IF src \notin DOMAIN temp.files THEN MoveErr(temp, out, dst)
    ELSE MoveTo(temp, out, src, io, dst, BelowRoot(dst))

\* move_file_to_output for the file src (a top-level name of the working
\* directory).  io tells which system calls succeed: mkdir (create_dir_all),
\* rename (fs::rename; it fails across file systems) and copy (fs::copy).
move_file_to_output(temp, out, src, ext, io) ==
    MoveToDst(temp, out, <<src>>, io, demangle(src, output_dir, ext))

(***************************************************************************)
(* Relocation on its own: SpecMove moves one file of bounded name.         *)
(***************************************************************************)

\* The longest generated encoded file name of SpecMove.
MaxNameLen == 5

NameAlphabet == {"a", "-", "_", "."}

RECURSIVE NamesUpTo(_)
NamesUpTo(n) ==
    IF n = 0 THEN {""}
    ELSE NamesUpTo(n - 1) \cup {s \o c : s \in NamesUpTo(n - 1), c \in NameAlphabet}

\* Names a directory entry can have: every string over the alphabet up to
\* the bound, and the names of the extractor's convention.
EncodedNames ==
    (NamesUpTo(MaxNameLen) \ {"", ".", ".."}) \cup
    { "a--b__c__d.ext", "plain.ext", "a--b__-c.wav", "a--b__--c.wav",
      "berlin--Animationer__vanheden700.bmp", "02--00__Dummy-2.bmp" }

EmptyTree == [exists |-> TRUE, files |-> <<>>, dirs |-> {}]

MoveIo == [mkdir : BOOLEAN, rename : BOOLEAN, copy : BOOLEAN]

InitMove ==
    /\ mv \in {[phase |-> "ready", name |-> n, ext |-> x,
                temp |-> TreeOfFiles({<<n>>}), out |-> EmptyTree,
                dst |-> "", ok |-> FALSE] :
                    n \in EncodedNames, x \in {None, Some("webp")}}
    /\ det = DetectIdle
    /\ dd = DedupIdle
    /\ im = ImageIdle
    /\ wr = WrapperIdle
    /\ pr = PrepareIdle
    /\ rn = RunsIdle
    /\ PipelineIdle

\* One call of move_file_to_output.
RunMove ==
    /\ mv.phase = "ready"
    /\ \E io \in MoveIo :
          LET r == move_file_to_output(mv.temp, mv.out, mv.name, mv.ext, io)
          IN  mv' = [mv EXCEPT !.phase = "moved", !.temp = r.temp, !.out = r.out,
                               !.dst = r.dst, !.ok = r.ok]
    /\ UNCHANGED <<det, dd, im, wr, pr, rn, pipeline>>

NextMove == RunMove

SpecMove == InitMove /\ [][NextMove]_vars

\* The destination as the claim words it, component by component.
ClaimedDestination(name) ==
    LET segs == split(name, "--")
        n == Len(segs)
        parts == split(segs[n], "__")
        rest == join(SubSeq(parts, 2, Len(parts)), "__")
        leaf == IF Len(rest) > 0 /\ SubSeq(rest, 1, 1) = "-"
                THEN SubSeq(rest, 2, Len(rest)) ELSE rest
    IN  IF n = 1 THEN <<name>>
        ELSE IF Len(parts) > 1
        THEN SubSeq(segs, 1, n - 1) \o <<parts[1]>> \o <<leaf>>
        ELSE SubSeq(segs, 1, n - 1) \o <<segs[n]>>

\* C10: the relocation destination of an encoded file name is, below the
\* output root: the name itself when "--" does not occur; otherwise the
\* segments before the last as nested directories, then the last segment,
\* or, when "__" occurs in it, its first part as one more directory and the
\* other parts rejoined with "__" as the leaf name less one leading '-'.
\* (Equality is that of paths; an extension override replaces the extension
\* of the last component.)
C10_DemangledDestination ==
    (mv.phase = "moved") =>
        LET said == ClaimedDestination(mv.name)
            claimed == DropCurDir(said)
            k == Len(claimed)
        IN  /\ ~mv.ext.some =>
                  /\ components(mv.dst) = components(output_dir) \o claimed
                  /\ BelowRoot(mv.dst) = claimed
            /\ (mv.ext.some /\ said[Len(said)] \notin {"", ".", ".."}) =>
                  components(mv.dst) =
                      components(output_dir) \o SubSeq(claimed, 1, k - 1)
                          \o <<file_stem(claimed[k]) \o "." \o mv.ext.val>>
            /\ (mv.name = "a--b__c__d.ext" /\ ~mv.ext.some)
                  => mv.dst = "output/a/b/c__d.ext"
            /\ (mv.name = "plain.ext" /\ ~mv.ext.some)
                  => mv.dst = "output/plain.ext"

\* A file whose leaf name had a leading '-' after the "__" split was moved.
C10_Witness ==
    /\ mv.phase = "moved" /\ mv.ok
    /\ mv.name = "a--b__-c.wav"
    /\ BelowRoot(mv.dst) = <<"a", "b", "c.wav">>
    /\ <<"a", "b", "c.wav">> \in DOMAIN mv.out.files

(***************************************************************************)
(* Directory operations (game_extractor.rs, main.rs)                       *)
(***************************************************************************)

IsDir(tree, d) == tree.exists /\ (d = <<>> \/ d \in tree.dirs)

\* The files and directories strictly below directory d of a tree.
FilesBelow(tree, d) == {p \in DOMAIN tree.files : IsPrefix(d, p) /\ Len(p) > Len(d)}
DirsBelow(tree, d) == {p \in tree.dirs : IsPrefix(d, p) /\ Len(p) > Len(d)}

Rebase(p, from, to) == to \o SubSeq(p, Len(from) + 1, Len(p))

\* The tree dst after every entry below src_dir of tree src has been copied
\* below dst_dir (files overwrite, directories are created).
CopyEntries(src, src_dir, dst, dst_dir) ==
    LET moved == {Rebase(p, src_dir, dst_dir) : p \in FilesBelow(src, src_dir)}
        from(q) == Rebase(q, dst_dir, src_dir)
    IN  [dst EXCEPT
            !.files = [q \in DOMAIN @ \cup moved |->
                          IF q \in moved THEN src.files[from(q)] ELSE @[q]],
            !.dirs = @ \cup {Rebase(p, src_dir, dst_dir) : p \in DirsBelow(src, src_dir)}]

\* copy_directory: creates dst_dir, then copies what is below src_dir; it
\* fails (with dst_dir created) when src_dir cannot be read.  ioOk: the
\* system calls on existing entries succeed.
copy_directory(src, src_dir, dst, dst_dir, ioOk) ==
    LET made == CreateDirAll(dst, dst_dir)
        same == IF src = dst THEN made ELSE src
    IN  IF ~IsDir(src, src_dir) \/ ~ioOk THEN IoErr(made)
        ELSE IoOk(CopyEntries(same, src_dir, made, dst_dir))

\* fs::remove_dir_all of directory d of a tree
RemoveDirAll(tree, d) ==
    IF d = <<>> THEN NoTree
    ELSE [tree EXCEPT !.files = Restrict(@, {p \in DOMAIN @ : ~IsPrefix(d, p)}),
                      !.dirs = {p \in @ : ~IsPrefix(d, p)}]

\* The directories directly inside the root whose lower-cased name is
\* "data" (the closure of main and of prepare_jonsson_temp_directory).
DataDirs(tree) ==
    IF ~tree.exists THEN {}
    ELSE {d \in tree.dirs : Len(d) = 1 /\ to_lowercase(d[1]) = "data"}

\* What find gives over read_dir for the "data" directory: none, or any one
\* of them, read_dir promising no order.
DataChoice(tree) ==
    IF DataDirs(tree) = {} THEN {{}} ELSE {{d} : d \in DataDirs(tree)}

\* prepare_jonsson_temp_directory: the entries of the "data" directory that
\* was found in the working directory (data: none or one), if there is one,
\* are copied to its root.
prepare_jonsson_temp_directory(temp, data, ioOk) ==
    IF ~temp.exists \/ ~ioOk THEN IoErr(temp)
    ELSE IF data = {} THEN IoOk(temp)
    ELSE LET d == CHOOSE x \in data : TRUE
         IN  IoOk(CopyEntries(temp, d, temp, <<>>))

\* JonssonDjupet::prepare_temp_directory: after the common part, xtras is
\* copied to Xtras and removed; a missing xtras makes copy_directory fail.
prepare_djupet(temp, data, ioOk) ==
    LET common == prepare_jonsson_temp_directory(temp, data, ioOk)
        copied == copy_directory(common.tree, <<"xtras">>, common.tree, <<"Xtras">>, ioOk)
    IN  IF ~common.ok THEN common
        ELSE IF ~copied.ok THEN copied
        ELSE IoOk(RemoveDirAll(copied.tree, <<"xtras">>))

\* game_extractor.rs:185-187  data is copied to the root
MulleBilData(tree, ioOk) == copy_directory(tree, <<"data">>, tree, <<>>, ioOk)

\* game_extractor.rs:180-183  movies is copied to the root
MulleBilMovies(tree, ioOk) ==
    LET movies == copy_directory(tree, <<"movies">>, tree, <<>>, ioOk)
    IN  IF ~movies.ok THEN movies ELSE MulleBilData(movies.tree, ioOk)

\* MulleBil::prepare_temp_directory: xtras is copied to Xtras and removed,
\* then movies and data are copied to the root; each copy_directory fails
\* when its source is missing.
prepare_mullebil(temp, ioOk) ==
    LET xtras == copy_directory(temp, <<"xtras">>, temp, <<"Xtras">>, ioOk)
    IN  IF ~xtras.ok THEN xtras
        ELSE MulleBilMovies(RemoveDirAll(xtras.tree, <<"xtras">>), ioOk)

\* GameExtractor::prepare_temp_directory
prepare_temp_directory(variant, temp, data, ioOk) ==
    IF variant = JonssonDjupet THEN prepare_djupet(temp, data, ioOk)
    ELSE IF variant = MulleBil THEN prepare_mullebil(temp, ioOk)
    ELSE prepare_jonsson_temp_directory(temp, data, ioOk)

\* The names directly inside the root of a tree: files and directories.
TopLevelEntries(tree) ==
    IF ~tree.exists THEN {}
    ELSE {p \in DOMAIN tree.files \cup tree.dirs : Len(p) = 1}

\* find_files: the entries directly inside dir whose extension is exactly
\* ext, sorted by path.
find_files(dir, ext) ==
    sort_paths({p \in TopLevelEntries(dir) :
                   extension(file_name(p)) = Some(ext)})

(***************************************************************************)
(* The pipeline driver (main.rs, main)                                     *)
(***************************************************************************)

\* How many of an archive's assets one run of the extractor may write.
MaxAssets == 4

Archive(name) == <<"archive", name>>

\* A tree with the given files (each holding the archive of its name) and
\* the given further, possibly empty, directories.
Disc(paths, more) ==
    [exists |-> TRUE,
     files |-> [p \in paths |-> Archive(file_name(p))],
     dirs |-> ParentDirs(paths) \cup more]

\* The input roots main is run on.
InputDirs ==
    { NoTree,
      Disc({<<"Data", "berlin.dir">>, <<"Data", "paris.dir">>}, {}),
      Disc({<<"Data", "PARIS.DIR">>, <<"Data", "data", "berlin.dir">>}, {}),
      Disc({<<"data", "game.dir">>, <<"data", "xtras", "x.x32">>}, {}),
      Disc({<<"data", "game.dir">>, <<"data", "avi.dir">>}, {}),
      Disc({<<"berlin.dir">>, <<"Data", "avi.dir">>, <<"Data", "xtras", "x.x32">>}, {}),
      Disc({<<"berlin.dir">>}, {}),
      Disc({<<"Data", "BERLIN.DIR">>}, {}),
      Disc({<<"Data", "x.dir">>}, {}),
      Disc({<<"Data", "02.dxr">>}, {}) }

\* ./extractor_tools as shipped, and missing.
ToolDirs ==
    { NoTree,
      [exists |-> TRUE,
       files |-> [p \in {<<"dir_extractor.exe">>, <<"Xtras", "a.x32">>} |-> <<"tool", p>>],
       dirs |-> {<<"Xtras">>}] }

Init ==
    /\ det = DetectIdle
    /\ dd = DedupIdle
    /\ mv = MoveIdle
    /\ im = ImageIdle
    /\ wr = WrapperIdle
    /\ pr = PrepareIdle
    /\ rn = RunsIdle
    /\ pc = "detect"
    /\ args \in [no_compression : BOOLEAN, no_upscale : BOOLEAN]
    /\ input_dir \in InputDirs
    /\ extractor_tools \in ToolDirs
    /\ game = DetectErr("")
    /\ temp_dir = NoTree
    /\ out_tree \in {NoTree, EmptyTree}
    /\ procs = <<>>
    /\ archives = NoArchives
    /\ images = NoImages
    /\ processed_files = <<>>
    /\ moves = NoMoves
    /\ error = NoError
    /\ log = <<>>
    /\ hist = NoHistory

\* A warning line printed to standard output.
Warning(kind, subject, found, expected) ==
    [warning |-> kind, subject |-> subject, found |-> found, expected |-> expected]

\* main returns Err: the process exits without running anything further.
Fail(stage, subject) ==
    /\ pc' = "failed"
    /\ error' = [stage |-> stage, subject |-> subject]

\* main.rs:285  let game = detect_game(&input_dir)?;
Detect ==
    /\ pc = "detect"
    /\ \E readOk \in BOOLEAN :
          LET r == detect_game(input_dir, readOk)
          IN  /\ game' = r
              /\ IF r.ok
                 THEN /\ pc' = "check_input"
                      /\ error' = error
                      /\ log' = IF r.warning = NoWarning THEN log
                                ELSE Append(log, Warning("shortfall", r.game,
                                                    r.warning.found, r.warning.expected))
                 ELSE Fail("detect", r.err) /\ log' = log
    /\ UNCHANGED <<harness, args, input_dir, extractor_tools, temp_dir, out_tree, procs,
                   archives, images, processed_files, moves, hist>>

\* main.rs:289-308  the input root must exist and hold a "data" directory
\* (in any letter case), which becomes the directory that is staged.
CheckInput ==
    /\ pc = "check_input"
    /\ \E readOk \in BOOLEAN :
          IF ~input_dir.exists THEN Fail("input_missing", "input_dir")
          ELSE IF ~readOk THEN Fail("read_input", "input_dir")
          ELSE IF DataDirs(input_dir) = {} THEN Fail("no_data_dir", "input_dir")
          ELSE pc' = "check_wine" /\ error' = error
    /\ UNCHANGED <<harness, args, input_dir, extractor_tools, game, temp_dir, out_tree,
                   procs, archives, images, processed_files, moves, log, hist>>

Exited(cmd, arg, result) ==
    [cmd |-> cmd, arg |-> arg, state |-> "exited", result |-> result]
Running(cmd, arg) ==
    [cmd |-> cmd, arg |-> arg, state |-> "running", result |-> ""]

\* main.rs:311  check_wine_installation: "wine --version" must spawn and
\* exit with success.
CheckWine ==
    /\ pc = "check_wine"
    /\ \E result \in {"spawn_failed", "exit_0", "exit_nonzero"} :
          /\ procs' = IF result = "spawn_failed" THEN procs
                      ELSE Append(procs, Exited("wine", "--version", result))
          /\ IF result = "exit_0" THEN pc' = "create_temp" /\ error' = error
             ELSE Fail("check_wine", "wine")
    /\ UNCHANGED <<harness, args, input_dir, extractor_tools, game, temp_dir, out_tree,
                   archives, images, processed_files, moves, log, hist>>

\* main.rs:313-314  the working directory is created (create_dir_all also
\* succeeds on a directory that is already there).
CreateTemp ==
    /\ pc = "create_temp"
    /\ \E ioOk \in BOOLEAN :
          IF ioOk
          THEN /\ temp_dir' = CreateDirAll(temp_dir, <<>>)
               /\ hist' = [hist EXCEPT !.temp_created = TRUE]
               /\ pc' = "stage" /\ error' = error
          ELSE /\ Fail("create_temp", "temp_dir")
               /\ UNCHANGED <<temp_dir, hist>>
    /\ UNCHANGED <<harness, args, input_dir, extractor_tools, game, out_tree, procs,
                   archives, images, processed_files, moves, log>>

\* main.rs:316-330  the data directory is copied into the working
\* directory, the variant prepares it, and dir_extractor.exe and Xtras are
\* copied in from extractor_tools.
Stage ==
    /\ pc = "stage"
    /\ \E data \in DataDirs(input_dir), ioOk \in BOOLEAN :
       \E inner \in DataChoice(copy_directory(input_dir, data, temp_dir, <<>>, ioOk).tree) :
          LET copied == copy_directory(input_dir, data, temp_dir, <<>>, ioOk)
              prepared == prepare_temp_directory(game.game, copied.tree, inner, ioOk)
              exe == <<"dir_extractor.exe">>
              hasExe == extractor_tools.exists /\ exe \in DOMAIN extractor_tools.files
              withExe == WriteFile(prepared.tree, exe, extractor_tools.files[exe])
              xtras == copy_directory(extractor_tools, <<"Xtras">>, withExe, <<"Xtras">>, ioOk)
          IN  IF ~copied.ok
              THEN temp_dir' = copied.tree /\ Fail("copy_input", "input_dir")
              ELSE IF ~prepared.ok
              THEN temp_dir' = prepared.tree /\ Fail("prepare", "temp_dir")
              ELSE IF ~hasExe
              THEN temp_dir' = prepared.tree /\ Fail("copy_tools", "dir_extractor.exe")
              ELSE IF ~xtras.ok
              THEN temp_dir' = xtras.tree /\ Fail("copy_tools", "Xtras")
              ELSE temp_dir' = xtras.tree /\ pc' = "find_archives" /\ error' = error
    /\ UNCHANGED <<harness, args, input_dir, extractor_tools, game, out_tree, procs,
                   archives, images, processed_files, moves, log, hist>>

\* What the external extractor can unpack from an archive: assets named by
\* the archive's stem in the extractor's flat convention: an image and a
\* sound (the same in every archive); berlin.dir also holds a text and an
\* image that repeats the content of the first.
Assets(archive) ==
    LET stem == file_stem(archive)
        common ==
            << [name |-> stem \o "--Animationer__vanheden700.bmp", content |-> <<"bmp", stem>>],
               [name |-> stem \o "--Ljud__-s1.wav", content |-> <<"wav", "s1">>] >>
    IN  IF archive # "berlin.dir" THEN common
        ELSE common \o
            << [name |-> stem \o "--Text__info.txt", content |-> <<"txt", stem>>],
               [name |-> stem \o "--Animationer__sickan0042.bmp", content |-> <<"bmp", stem>>] >>

RECURSIVE WriteAssets(_, _, _)
\* The working directory after the extractor wrote the first k assets.
WriteAssets(tree, assets, k) ==
    IF k = 0 THEN tree
    ELSE WriteFile(WriteAssets(tree, assets, k - 1), <<assets[k].name>>, assets[k].content)

\* main.rs:162-167  extract_files finds the archives of the working
\* directory; none is an error.
FindArchives ==
    /\ pc = "find_archives"
    /\ \E readOk \in BOOLEAN :
          LET found == find_files(temp_dir, "dir")
          IN  IF ~readOk THEN Fail("find_archives", "temp_dir") /\ archives' = archives
              ELSE IF Len(found) = 0
              THEN Fail("no_archives", "temp_dir") /\ archives' = archives
              ELSE /\ archives' = [found |-> found, next |-> 1]
                   /\ pc' = "extract_launch" /\ error' = error
    /\ UNCHANGED <<harness, args, input_dir, extractor_tools, game, temp_dir, out_tree,
                   procs, images, processed_files, moves, log, hist>>

\* main.rs:139-141  the command line of the extractor, less the archive
ExtractorCmd == "wine dir_extractor.exe"

\* A launch rule that does not wait for the previous extractor to exit.
MayLaunchEarly ==
    pc \in {"extract_launch", "extract_wait"} /\ archives.next <= Len(archives.found)

\* Whether an extractor subprocess may be launched for the next archive.
MayLaunch == pc = "extract_launch" /\ archives.next <= Len(archives.found)

\* game_extractor.rs:22  the run_extractor method of a variant
VariantHook(variant) == <<variant, "run_extractor">>

\* main.rs:177  the function extract_files calls for each archive: the free
\* function run_extractor of main.rs (138-145); extract_files is not given
\* the variant.
Callee == <<"main", "run_extractor">>

\* main.rs:177, 138-145  run_extractor spawns "wine dir_extractor.exe
\* <archive>" in the working directory; a spawn failure is the only error.
ExtractLaunch ==
    /\ MayLaunch
    /\ LET name == file_name(archives.found[archives.next])
       IN  /\ \E spawned \in BOOLEAN :
                 IF spawned
                 THEN /\ procs' = Append(procs, Running(ExtractorCmd, name))
                      /\ pc' = "extract_wait" /\ error' = error
                 ELSE /\ procs' = procs
                      /\ Fail("extract", name)
           /\ hist' = [hist EXCEPT !.calls = Append(@, [callee |-> Callee, arg |-> name])]
    /\ UNCHANGED <<harness, args, input_dir, extractor_tools, game, temp_dir, out_tree,
                   archives, images, processed_files, moves, log>>

\* main.rs:143, 177-179  Command::output returns when the extractor exits;
\* its exit status is not looked at, and the loop goes on to the next
\* archive.  The extractor has written some of the archive's assets.
ExtractExit ==
    /\ pc = "extract_wait"
    /\ LET n == Len(procs)
           name == procs[n].arg
       IN  \E result \in {"exit_0", "exit_nonzero"}, k \in 0..MaxAssets :
              /\ procs' = [procs EXCEPT ![n] = Exited(@.cmd, @.arg, result)]
              /\ temp_dir' = WriteAssets(temp_dir, Assets(name),
                                         IF k <= Len(Assets(name)) THEN k
                                         ELSE Len(Assets(name)))
              /\ archives' = [archives EXCEPT !.next = @ + 1]
              /\ pc' = IF archives.next < Len(archives.found)
                        THEN "extract_launch" ELSE "dedup"
              /\ hist' = IF archives.next < Len(archives.found) THEN hist
                         ELSE [hist EXCEPT !.extracted = temp_dir']
              /\ error' = error
    /\ UNCHANGED <<harness, args, input_dir, extractor_tools, game, out_tree,
                   images, processed_files, moves, log>>

\* A driver for which a failure of remove_duplicates ends the run.
AfterDedupFatal(ok) == IF ok THEN "purge" ELSE "failed"

\* main.rs:335-340  the statement after remove_duplicates: the purge,
\* whether it returned Ok or Err.
AfterDedup(ok) == "purge"

\* main.rs:334-338  a failure of remove_duplicates is only warned about.
Dedup ==
    /\ pc = "dedup"
    /\ \E readOk \in BOOLEAN, failAt \in 0..Cardinality(TopLevelFiles(temp_dir)) :
          LET r == remove_duplicates(temp_dir, readOk, failAt)
          IN  /\ temp_dir' = r.tree
              /\ log' = IF r.ok THEN log
                        ELSE Append(log, Warning("dedup", "temp_dir", 0, 0))
              /\ hist' = [hist EXCEPT !.dedup = IF r.ok THEN "ok" ELSE "failed"]
              /\ pc' = AfterDedup(r.ok)
    /\ UNCHANGED <<harness, args, input_dir, extractor_tools, game, out_tree, procs,
                   archives, images, processed_files, moves, error>>

\* What fs::remove_file does to one listed file: it is missing, it is
\* removed, or it is there and cannot be removed (failing: the names for
\* which the system call fails).
RemoveOutcome(tree, name, failing) ==
    IF <<name>> \notin DOMAIN tree.files THEN "missing"
    ELSE IF name \in failing THEN "failed"
    ELSE "removed"

\* A loop that gives up at the first file it cannot remove.
PurgeNextStopOnError(outcome, i, n) == IF outcome = "removed" THEN i + 1 ELSE n + 1

\* main.rs:341-346  the loop goes on to the next listed file whatever
\* remove_file returned.
PurgeNext(outcome, i, n) == i + 1

RECURSIVE PurgeLoop(_, _, _, _)
\* main.rs:341-346  remove_file is called on every listed file; an Err is
\* warned about.  Returns the tree and, per file tried, what happened.
PurgeLoop(tree, files, i, failing) ==
    IF i > Len(files) THEN [tree |-> tree, tried |-> <<>>]
    ELSE LET outcome == RemoveOutcome(tree, files[i], failing)
             rest == PurgeLoop(IF outcome = "removed" THEN RemoveFile(tree, <<files[i]>>)
                               ELSE tree,
                               files, PurgeNext(outcome, i, Len(files)), failing)
         IN  [tree |-> rest.tree,
              tried |-> <<[name |-> files[i], outcome |-> outcome]>> \o rest.tried]

\* The warnings of the purge: one per file that was not removed.
PurgeWarnings(tried) ==
    LET bad == SelectSeq(tried, LAMBDA t : t.outcome # "removed")
    IN  [i \in 1..Len(bad) |-> Warning("purge", bad[i].name, 0, 0)]

\* The listed broken images that are in the working directory.
BrokenPresent ==
    {get_broken_images(game.game)[i] : i \in DOMAIN get_broken_images(game.game)}
        \cap {p[1] : p \in TopLevelFiles(temp_dir)}

\* main.rs:340-346  the broken images of the variant are purged.
Purge ==
    /\ pc = "purge"
    /\ \E failing \in SUBSET BrokenPresent :
          LET r == PurgeLoop(temp_dir, get_broken_images(game.game), 1, failing)
          IN  /\ temp_dir' = r.tree
              /\ log' = log \o PurgeWarnings(r.tried)
              /\ hist' = [hist EXCEPT !.purge = r.tried]
    /\ pc' = "find_bmp"
    /\ UNCHANGED <<harness, args, input_dir, extractor_tools, game, out_tree, procs,
                   archives, images, processed_files, moves, error>>

Bmp == "bmp"
WebP == "webp"
Png == "png"

\* A decision table with the two upscaled formats exchanged.
process_image_format_swapped(compress, upscale) ==
    IF ~upscale /\ ~compress THEN Bmp
    ELSE IF ~upscale /\ compress THEN WebP
    ELSE IF compress THEN Png ELSE WebP

\* process_image: the format it saves in and returns (img.rs:29-60).
process_image_format(compress, upscale) ==
    IF ~upscale /\ ~compress THEN Bmp
    ELSE IF ~upscale /\ compress THEN WebP
    ELSE IF compress THEN WebP ELSE Png

\* ImageFormat::extensions_str()[0]
extensions_str(format) == format

\* What process_image saves over its input: the image in the new format.
Processed(content, format) == <<"image", format, content>>

\* main.rs:362-365  the images of the working directory are listed.
FindBmp ==
    /\ pc = "find_bmp"
    /\ \E readOk \in BOOLEAN :
          IF ~readOk THEN Fail("find_bmp", "temp_dir") /\ images' = images
          ELSE LET found == find_files(temp_dir, "bmp")
               IN  /\ images' = [todo |-> {found[i] : i \in DOMAIN found},
                                 ok |-> {}, failed |-> {}]
                   /\ pc' = "process" /\ error' = error
    /\ UNCHANGED <<harness, args, input_dir, extractor_tools, game, temp_dir, out_tree,
                   procs, archives, processed_files, moves, log, hist>>

\* main.rs:369-389  one worker of the parallel map processes one image:
\* process_image saves the result over the input path, or fails.
ProcessImage ==
    /\ pc = "process"
    /\ \E p \in images.todo, ok \in BOOLEAN :
          LET format == process_image_format(~args.no_compression, ~args.no_upscale)
          IN  IF ok /\ p \in DOMAIN temp_dir.files
              THEN /\ temp_dir' = WriteFile(temp_dir, p, Processed(temp_dir.files[p], format))
                   /\ images' = [images EXCEPT !.todo = @ \ {p}, !.ok = @ \cup {p}]
              ELSE /\ temp_dir' = temp_dir
                   /\ images' = [images EXCEPT !.todo = @ \ {p}, !.failed = @ \cup {p}]
    /\ UNCHANGED <<harness, pc, args, input_dir, extractor_tools, game, out_tree, procs,
                   archives, processed_files, moves, error, log, hist>>

\* What collecting the batch into a Result does once a worker has failed:
\* "abort" returns the error, "partition" would go on with the successes.
OnImageFailure == "abort"

\* A collect that returns as soon as one worker has delivered a result.
BatchCompleteEarly == images.ok # {}

\* main.rs:367-390  the parallel map has run every worker: collect returns
\* Ok only then.
BatchComplete == images.todo = {}

\* main.rs:390  .collect::<Result<Vec<_>>>()?  gathers the results in the
\* order of bmp_files; an Err of any worker makes main return it (the
\* workers not yet started may then never run).
Collect ==
    /\ pc = "process"
    /\ BatchComplete \/ images.failed # {}
    /\ LET format == process_image_format(~args.no_compression, ~args.no_upscale)
           done == sort_paths(images.ok)
       IN  IF images.failed # {} /\ OnImageFailure = "abort"
           THEN /\ \E p \in images.failed : Fail("process_image", file_name(p))
                /\ processed_files' = processed_files
           ELSE /\ BatchComplete
                /\ processed_files' =
                      [i \in DOMAIN done |-> [path |-> file_name(done[i]), format |-> format]]
                /\ pc' = "post_hook" /\ error' = error
    /\ UNCHANGED <<harness, args, input_dir, extractor_tools, game, temp_dir, out_tree,
                   procs, archives, images, moves, log, hist>>

RECURSIVE MjolnerPostLoop(_, _, _, _)
\* JonssonMjolner::post_extraction_setup: every processed vanheden700 frame
\* still in the working directory is copied to the vanheden707 name.
MjolnerPostLoop(tree, files, i, ioOk) ==
    IF i > Len(files) THEN IoOk(tree)
    ELSE LET f == files[i]
             new_file_name == "berlin--Animationer__vanheden707." \o extensions_str(f.format)
         IN  IF starts_with(f.path, "berlin--Animationer__vanheden700")
                  /\ <<f.path>> \in DOMAIN tree.files
             THEN IF ~ioOk THEN IoErr(tree)
                  ELSE MjolnerPostLoop(
                          WriteFile(tree, <<new_file_name>>, tree.files[<<f.path>>]),
                          files, i + 1, ioOk)
             ELSE MjolnerPostLoop(tree, files, i + 1, ioOk)

\* GameExtractor::post_extraction_setup
post_extraction_setup(variant, tree, files, ioOk) ==
    IF variant = JonssonMjolner THEN MjolnerPostLoop(tree, files, 1, ioOk)
    ELSE IoOk(tree)

\* main.rs:392-395  the variant's post hook, then the output root is made.
PostHook ==
    /\ pc = "post_hook"
    /\ \E ioOk \in BOOLEAN, mkdirOk \in BOOLEAN :
          LET r == post_extraction_setup(game.game, temp_dir, processed_files, ioOk)
          IN  /\ temp_dir' = r.tree
              /\ IF ~r.ok THEN Fail("post_hook", "temp_dir") /\ out_tree' = out_tree
                 ELSE IF ~mkdirOk THEN Fail("create_output", "output_dir") /\ out_tree' = out_tree
                 ELSE /\ out_tree' = CreateDirAll(out_tree, <<>>)
                      /\ pc' = "move_images" /\ error' = error
    /\ moves' = NoMoves
    /\ UNCHANGED <<harness, args, input_dir, extractor_tools, game, procs, archives,
                   images, processed_files, log, hist>>

\* main.rs:397-401  the next processed image is moved to its demangled
\* path with the extension of its format; after the last one main.rs:403
\* lists the sounds.
MoveImage ==
    /\ pc = "move_images"
    /\ IF moves.next > Len(processed_files)
       THEN \E readOk \in BOOLEAN :
               /\ IF readOk
                  THEN /\ moves' = [wav_files |-> find_files(temp_dir, "wav"), next |-> 1]
                       /\ pc' = "move_wav" /\ error' = error
                  ELSE Fail("find_wav", "temp_dir") /\ moves' = moves
               /\ UNCHANGED <<temp_dir, out_tree>>
       ELSE \E io \in MoveIo :
               LET f == processed_files[moves.next]
                   r == move_file_to_output(temp_dir, out_tree, f.path,
                                            Some(extensions_str(f.format)), io)
               IN  /\ temp_dir' = r.temp
                   /\ out_tree' = r.out
                   /\ IF r.ok
                      THEN /\ moves' = [moves EXCEPT !.next = @ + 1]
                           /\ UNCHANGED <<pc, error>>
                      ELSE Fail("move_image", f.path) /\ moves' = moves
    /\ UNCHANGED <<harness, args, input_dir, extractor_tools, game, procs, archives,
                   images, processed_files, log, hist>>

\* main.rs:404-411  the next sound is moved as it is; after the last one
\* the working directory is removed and main returns Ok.
MoveWav ==
    /\ pc = "move_wav"
    /\ IF moves.next > Len(moves.wav_files)
       THEN \E ioOk \in BOOLEAN :
               /\ IF ioOk
                  THEN temp_dir' = RemoveDirAll(temp_dir, <<>>) /\ pc' = "done" /\ error' = error
                  ELSE Fail("cleanup", "temp_dir") /\ temp_dir' = temp_dir
               /\ UNCHANGED <<out_tree, moves>>
       ELSE \E io \in MoveIo :
               LET src == file_name(moves.wav_files[moves.next])
                   r == move_file_to_output(temp_dir, out_tree, src, None, io)
               IN  /\ temp_dir' = r.temp
                   /\ out_tree' = r.out
                   /\ IF r.ok
                      THEN /\ moves' = [moves EXCEPT !.next = @ + 1]
                           /\ UNCHANGED <<pc, error>>
                      ELSE Fail("move_wav", src) /\ moves' = moves
    /\ UNCHANGED <<harness, args, input_dir, extractor_tools, game, procs, archives,
                   images, processed_files, log, hist>>

Next ==
    \/ Detect
    \/ CheckInput
    \/ CheckWine
    \/ CreateTemp
    \/ Stage
    \/ FindArchives
    \/ ExtractLaunch
    \/ ExtractExit
    \/ Dedup
    \/ Purge
    \/ FindBmp
    \/ ProcessImage
    \/ Collect
    \/ PostHook
    \/ MoveImage
    \/ MoveWav

Spec == Init /\ [][Next]_vars

(***************************************************************************)
(* Properties of the pipeline                                              *)
(***************************************************************************)

Terminated == pc \in {"done", "failed"}

\* The extractor subprocesses launched so far, in launch order.
ExtractorRuns == SelectSeq(procs, LAMBDA r : r.cmd = ExtractorCmd)

\* The case-folded names that detection found under the input root.
FoundFiles == {to_lowercase(file_name(p)) : p \in find_dir_files(input_dir)}

\* No registered variant expects any of the found files.
NoVariantScores == \A v \in Registered : get_expected_files(v) \cap FoundFiles = {}

\* C3: if no variant scores above zero against the found files, the run
\* fails with the no-matching-variant error, and no subprocess has been
\* launched and no working directory created.
C3_NoMatchFailsBeforeAnySubprocess ==
    (pc # "detect" /\ game.err # ErrReadDir /\ NoVariantScores) =>
        /\ pc = "failed"
        /\ error = [stage |-> "detect", subject |-> ErrNoMatch]
        /\ procs = <<>>
        /\ ~hist.temp_created
        /\ ~temp_dir.exists

\* The run on an input root holding only an archive that no variant expects.
C3_Witness ==
    /\ pc = "failed"
    /\ error.subject = ErrNoMatch
    /\ find_dir_files(input_dir) # {}
    /\ NoVariantScores

\* C4 as stated: a run that created the working directory has removed it
\* by the time it ends, in success or in a fatal error.
C4_TempRemovedWhenRunEnds ==
    (Terminated /\ hist.temp_created) => ~temp_dir.exists

\* C5 as stated: failed images do not abort the run; every image that was
\* processed goes on to the post hook and is relocated.
C5_ImageFailureDoesNotAbort ==
    (images.failed # {}) =>
        /\ ~(pc = "failed" /\ error.stage = "process_image")
        /\ pc \in {"post_hook", "move_images", "move_wav", "done"} =>
              \A p \in images.ok :
                  \E i \in DOMAIN processed_files : processed_files[i].path = file_name(p)
        /\ pc = "done" =>
              \A i \in DOMAIN processed_files :
                  BelowRoot(demangle(processed_files[i].path, output_dir,
                                     Some(extensions_str(processed_files[i].format))))
                      \in DOMAIN out_tree.files

\* C6 as stated: an extractor that exits with a non-zero status (or cannot
\* be spawned) aborts the run with an error naming its archive; no later
\* archive is extracted and no later stage runs.
C6_ExtractorFailureAborts ==
    /\ \A i \in DOMAIN procs :
          (procs[i].cmd = ExtractorCmd /\ procs[i].result = "exit_nonzero") =>
              /\ pc = "failed"
              /\ error = [stage |-> "extract", subject |-> procs[i].arg]
              /\ i = Len(procs)
    /\ (pc = "failed" /\ error.stage = "extract") =>
          /\ images = NoImages
          /\ out_tree.exists => DOMAIN out_tree.files = {}

\* C7: archives are extracted one at a time in lexicographic path order:
\* an extractor starts only after the one before it has exited, at no time
\* two are running, and the archives extracted so far are the first of the
\* working directory's archives in ascending order.
C7_OneExtractorAtATimeInPathOrder ==
    LET runs == ExtractorRuns
    IN  /\ Cardinality({i \in DOMAIN procs : procs[i].state = "running"}) <= 1
        /\ \A i \in DOMAIN runs : i < Len(runs) => runs[i].state = "exited"
        /\ \A i \in DOMAIN runs, j \in DOMAIN runs :
              i < j => StrLess(runs[i].arg, runs[j].arg)
        /\ \A i \in DOMAIN runs :
              /\ i <= Len(archives.found)
              /\ archives.found[i] = <<runs[i].arg>>
        /\ \A i \in DOMAIN archives.found, j \in DOMAIN archives.found :
              i < j => PathLess(archives.found[i], archives.found[j])

\* The second archive is being extracted after the first one has exited.
C7_Witness ==
    /\ Len(ExtractorRuns) = 2
    /\ ExtractorRuns[1] = Exited(ExtractorCmd, "berlin.dir", "exit_0")
    /\ ExtractorRuns[2] = Running(ExtractorCmd, "paris.dir")

(***************************************************************************)
(* The compositor (img.rs)                                                 *)
(***************************************************************************)

\* An image is [width, height, px], px a function from <<x, y>> (from 0) to
\* an Rgba pixel <<r, g, b, a>> of u8 channels.
Rgba(r, g, b, a) == <<r, g, b, a>>

Coordinates(width, height) == (0..(width - 1)) \X (0..(height - 1))

ImageBuffer(width, height, px) ==
    [width |-> width, height |-> height, px |-> px]

\* img.rs:78-80, 94-96  componentwise equality with the color key; the
\* pixel's alpha is not looked at.
MatchesKey(pixel, transparent_color) ==
    /\ pixel[1] = transparent_color[1]
    /\ pixel[2] = transparent_color[2]
    /\ pixel[3] = transparent_color[3]

\* img.rs:68-88  the mask: the color key where the pixel matches it, opaque
\* black elsewhere.
background_and_foreground(img, transparent_color) ==
    LET background == Rgba(transparent_color[1], transparent_color[2],
                           transparent_color[3], 255)
        foreground == Rgba(0, 0, 0, 255)
    IN  ImageBuffer(img.width, img.height,
            [xy \in Coordinates(img.width, img.height) |->
                IF MatchesKey(img.px[xy], transparent_color)
                THEN background ELSE foreground])

\* img.rs:90-104  color-key pixels become fully transparent
background_to_transparent(img, transparent_color) ==
    LET transparent == Rgba(0, 0, 0, 0)
    IN  ImageBuffer(img.width, img.height,
            [xy \in Coordinates(img.width, img.height) |->
                IF MatchesKey(img.px[xy], transparent_color)
                THEN transparent ELSE img.px[xy]])

\* img.rs:43  let factor = 3
factor == 3

Abs(n) == IF n < 0 THEN -n ELSE n
Max(a, b) == IF a > b THEN a ELSE b
Min(a, b) == IF a < b THEN a ELSE b

\* FilterType::Triangle when enlarging by f: the weight of input sample i
\* for output sample out is max(0, 1 - |i - ((out + 1/2)/f - 1/2)|), here
\* multiplied by 2f to stay in the integers.
Weight(i, out, f) == Max(0, 2 * f - Abs(2 * f * i - 2 * out - 1 + f))

Weights(n, out, f) == [i \in 0..(n - 1) |-> Weight(i, out, f)]

RECURSIVE WeightedSum(_, _, _)
\* The sum of w[i] * v[i] over the first n samples.
WeightedSum(w, v, n) ==
    IF n = 0 THEN 0 ELSE w[n - 1] * v[n - 1] + WeightedSum(w, v, n - 1)

Ones(n) == [i \in 0..(n - 1) |-> 1]

\* The vertical pass over column x of channel c.
ColumnSample(img, x, c, wy) ==
    WeightedSum(wy, [j \in 0..(img.height - 1) |-> img.px[<<x, j>>][c]], img.height)

\* The horizontal pass over the columns, not yet divided by the weights.
SampleSum(img, c, wx, wy) ==
    WeightedSum(wx, [i \in 0..(img.width - 1) |-> ColumnSample(img, i, c, wy)], img.width)

\* The channel as u8: the weighted mean, clamped and rounded to nearest.
ToU8(num, den) == Min(255, Max(0, (2 * num + den) \div (2 * den)))

SampleChannel(img, c, wx, wy) ==
    ToU8(SampleSum(img, c, wx, wy),
         WeightedSum(wx, Ones(img.width), img.width)
             * WeightedSum(wy, Ones(img.height), img.height))

SamplePixel(img, wx, wy) ==
    [c \in 1..4 |-> SampleChannel(img, c, wx, wy)]

\* img.rs:46-51  imageops::resize(&img, width * f, height * f, Triangle)
resize(img, f) ==
    ImageBuffer(img.width * f, img.height * f,
        [xy \in Coordinates(img.width * f, img.height * f) |->
            SamplePixel(img, Weights(img.width, xy[1], f),
                             Weights(img.height, xy[2], f))])

\* img.rs:116-165  the super-resolution network: an image factor times as
\* large, every pixel opaque.  What the network predicts for the colours is
\* not modelled: shade stands for it.
ai_upscale(input_image, f, shade) ==
    ImageBuffer(input_image.width * f, input_image.height * f,
        [xy \in Coordinates(input_image.width * f, input_image.height * f) |->
            Rgba(shade, shade, shade, 255)])

\* img.rs:106-114  the alpha of every pixel becomes 255 less the red channel
\* of the resized mask.
combine_background(img2, background_img) ==
    ImageBuffer(background_img.width, background_img.height,
        [xy \in Coordinates(background_img.width, background_img.height) |->
            [img2.px[xy] EXCEPT ![4] = 255 - background_img.px[xy][1]]])

\* img.rs:42-54  the upscale path
Upscaled(img, transparent_color, shade) ==
    combine_background(
        ai_upscale(background_to_transparent(img, transparent_color), factor, shade),
        resize(background_and_foreground(img, transparent_color), factor))

\* The functions process_image calls, in order, when it upscales and when
\* it does not.
UpscaleSteps ==
    << "open", "background_and_foreground", "resize", "background_to_transparent",
       "ai_upscale", "combine_background", "save_with_format" >>
PlainSteps == << "open", "save_with_format" >>

ImageErr(steps) == [ok |-> FALSE, format |-> "", steps |-> steps, image |-> <<>>]

\* img.rs:18-66  process_image: the format it returns, the calls it made
\* and the image it saved.  openOk, saveOk: image::open and save_with_format
\* succeed.
process_image(img, compress, upscale, transparent_color, shade, openOk, saveOk) ==
    IF ~openOk THEN ImageErr(<<"open">>)
    ELSE IF ~saveOk THEN ImageErr(IF upscale THEN UpscaleSteps ELSE PlainSteps)
    ELSE [ok |-> TRUE,
          format |-> process_image_format(compress, upscale),
          steps |-> IF upscale THEN UpscaleSteps ELSE PlainSteps,
          image |-> IF upscale THEN Upscaled(img, transparent_color, shade) ELSE img]

(***************************************************************************)
(* The compositor on its own: SpecImage processes one small image.         *)
(***************************************************************************)

\* The longest side of a generated input image, in pixels.
MaxSide == 2

\* The colours of the generated images: the three color keys and another.
Palette == { Rgba(255, 255, 255, 255), Rgba(255, 0, 255, 255),
             Rgba(0, 0, 0, 255), Rgba(10, 20, 30, 255) }

\* An image of one colour, and one with a single pixel of another.
Uniform(width, height, colour) ==
    ImageBuffer(width, height, [xy \in Coordinates(width, height) |-> colour])
OneOdd(width, height, colour, at, odd) ==
    ImageBuffer(width, height,
        [xy \in Coordinates(width, height) |-> IF xy = at THEN odd ELSE colour])

InputImages ==
    UNION { {Uniform(w, h, c) : c \in Palette} \cup
            {OneOdd(w, h, c, at, odd) :
                c \in Palette, at \in (0..(w - 1)) \X (0..(h - 1)), odd \in Palette} :
            w \in 1..MaxSide, h \in 1..MaxSide }

\* What the network may predict (see ai_upscale).
Shades == {0, 200}

InitImage ==
    /\ im \in {[phase |-> "ready", image |-> i, compress |-> c, upscale |-> u,
                variant |-> v, result |-> ImageErr(<<>>)] :
                    i \in InputImages, c \in BOOLEAN, u \in BOOLEAN, v \in Registered}
    /\ det = DetectIdle
    /\ dd = DedupIdle
    /\ mv = MoveIdle
    /\ wr = WrapperIdle
    /\ pr = PrepareIdle
    /\ rn = RunsIdle
    /\ PipelineIdle

\* One call of process_image with the color key of the variant.
RunImage ==
    /\ im.phase = "ready"
    /\ \E shade \in Shades, openOk \in BOOLEAN, saveOk \in BOOLEAN :
          im' = [im EXCEPT !.phase = "done",
                           !.result = process_image(im.image, im.compress, im.upscale,
                                                    get_transparent_color(im.variant),
                                                    shade, openOk, saveOk)]
    /\ UNCHANGED <<det, dd, mv, wr, pr, rn, pipeline>>

NextImage == RunImage

SpecImage == InitImage /\ [][NextImage]_vars

\* The calls process_image made.
StepsTaken == {im.result.steps[i] : i \in DOMAIN im.result.steps}

\* The calls of the mask and AI-upscale path.
MaskPath == { "background_and_foreground", "resize", "background_to_transparent",
              "ai_upscale", "combine_background" }

\* C11: the format process_image returns follows the decision table for
\* the four (upscale, compress) combinations: (no, no) BMP, (no, yes) WebP,
\* (yes, no) PNG, (yes, yes) WebP; and the mask and AI-upscale path is
\* entered only when upscale is true.
C11_FormatFollowsDecisionTable ==
    (im.phase = "done") =>
        /\ im.result.ok =>
              /\ (~im.upscale /\ ~im.compress) => im.result.format = "bmp"
              /\ (~im.upscale /\ im.compress) => im.result.format = "webp"
              /\ (im.upscale /\ ~im.compress) => im.result.format = "png"
              /\ (im.upscale /\ im.compress) => im.result.format = "webp"
        /\ (StepsTaken \cap MaskPath # {}) => im.upscale

\* An upscaled, uncompressed image was saved as PNG through the mask path.
C11_Witness ==
    /\ im.phase = "done" /\ im.result.ok
    /\ im.upscale /\ ~im.compress
    /\ im.result.format = "png"
    /\ "ai_upscale" \in StepsTaken
    /\ im.result.image.width = factor * im.image.width

\* The input consists only of the color key of the variant.
SolidColorKey ==
    \A xy \in DOMAIN im.image.px :
        MatchesKey(im.image.px[xy], get_transparent_color(im.variant))

\* C12 as stated: for the color key of any registered variant, a uniform
\* image of that color, upscaled, comes out with alpha 0 in every pixel.
C12_SolidColorKeyFullyTransparent ==
    (im.phase = "done" /\ im.result.ok /\ im.upscale /\ SolidColorKey) =>
        \A xy \in DOMAIN im.result.image.px : im.result.image.px[xy][4] = 0

(***************************************************************************)
(* Further properties of relocation                                        *)
(***************************************************************************)

\* C13 as stated: after move_file_to_output succeeds the file is at its
\* demangled destination, the parent directories of the destination exist,
\* and the file is no longer at the source path, whether the rename
\* succeeded or the copy fallback was taken.
C13_MovedFileLeavesSource ==
    (mv.phase = "moved" /\ mv.ok) =>
        LET at == BelowRoot(mv.dst)
        IN  /\ at \in DOMAIN mv.out.files
            /\ \A n \in 1..(Len(at) - 1) : SubSeq(at, 1, n) \in mv.out.dirs
            /\ <<mv.name>> \notin DOMAIN mv.temp.files

(***************************************************************************)
(* The dialog-dismissal wrapper (game_extractor.rs, MulleBil::run_extractor)*)
(* SpecWrapper runs its three threads: the caller, the extractor thread    *)
(* and the xdotool thread.                                                 *)
(***************************************************************************)

\* How many attempts of the xdotool thread are told apart.
MaxAttempts == 2

\* What Command::output of the extractor can give: an Output with an exit
\* status, or an io::Error when wine cannot be spawned.
ExtractorResults == {"exit_0", "exit_nonzero", "spawn_failed"}

\* What one "xdotool key Return" can give: a silent Output, an Output with
\* text on stderr, or an io::Error.
AttemptOutcomes == {"silent", "stderr", "io_error"}

WrapperArchives == {"02.dxr", "03.dxr"}

\* game_extractor.rs:215-219  the state on entry: running is true, no
\* thread is spawned.
WrapperReady(dir_file) ==
    [phase |-> "spawn_extractor",  \* the caller's next statement
     dir_file |-> dir_file,
     running |-> TRUE,             \* the AtomicBool shared with the xdotool thread
     extractor |-> "unstarted",    \* the extractor thread
     output |-> "",                \* what its Command::output gave
     xdotool |-> "unstarted",      \* the xdotool thread's next statement
     attempts |-> 0,               \* xdotool runs so far (counted to MaxAttempts)
     logged |-> 0,                 \* attempts whose error was printed (likewise)
     join_logged |-> FALSE,        \* "Error joining xdotool thread" was printed
     events |-> <<>>,              \* history: what has happened, in order
     returned |-> ""]              \* what run_extractor returned

InitWrapper ==
    /\ wr \in {WrapperReady(f) : f \in WrapperArchives}
    /\ det = DetectIdle
    /\ dd = DedupIdle
    /\ mv = MoveIdle
    /\ im = ImageIdle
    /\ pr = PrepareIdle
    /\ rn = RunsIdle
    /\ PipelineIdle

WrapperRest == <<det, dd, mv, im, pr, rn, pipeline>>

\* game_extractor.rs:221-227  thread::spawn of the extractor thread
SpawnExtractor ==
    /\ wr.phase = "spawn_extractor"
    /\ wr' = [wr EXCEPT !.phase = "spawn_xdotool", !.extractor = "running",
                        !.events = Append(@, "extractor_started")]
    /\ UNCHANGED WrapperRest

\* game_extractor.rs:233  thread::spawn of the xdotool thread
SpawnDismissal ==
    /\ wr.phase = "spawn_xdotool"
    /\ wr' = [wr EXCEPT !.phase = "join_extractor", !.xdotool = "check",
                        !.events = Append(@, "dismissal_started")]
    /\ UNCHANGED WrapperRest

\* game_extractor.rs:222-226  the extractor thread: Command::output returns
ExtractorFinish ==
    /\ wr.extractor = "running"
    /\ \E result \in ExtractorResults :
          wr' = [wr EXCEPT !.extractor = "done", !.output = result,
                           !.events = Append(@, "extractor_done")]
    /\ UNCHANGED WrapperRest

\* game_extractor.rs:253  extractor_thread.join().unwrap()?  An io::Error
\* of the extractor is returned at once.
JoinExtractor ==
    /\ wr.phase = "join_extractor"
    /\ wr.extractor = "done"
    /\ wr' = IF wr.output = "spawn_failed"
             THEN [wr EXCEPT !.phase = "returned", !.returned = wr.output]
             ELSE [wr EXCEPT !.phase = "store"]
    /\ UNCHANGED WrapperRest

\* A caller that may signal the stop while it still waits for the extractor.
MayStopEarly == wr.phase \in {"join_extractor", "store"}

\* Whether the caller is at the statement that stores false to running.
MayStop == wr.phase = "store"

\* game_extractor.rs:256  running.store(false)
StoreStop ==
    /\ MayStop
    /\ wr' = [wr EXCEPT !.phase = "grace", !.running = FALSE,
                        !.events = Append(@, "stop")]
    /\ UNCHANGED WrapperRest

\* game_extractor.rs:259  thread::sleep(500 ms)
Grace ==
    /\ wr.phase = "grace"
    /\ wr' = [wr EXCEPT !.phase = "join_xdotool",
                        !.events = Append(@, "grace_over")]
    /\ UNCHANGED WrapperRest

\* game_extractor.rs:262-266  xdotool_thread.join() returns once that thread
\* has ended; an Err (the thread panicked) is printed; Ok(result).
JoinDismissal ==
    /\ wr.phase = "join_xdotool"
    /\ wr.xdotool \in {"exited", "panicked"}
    /\ wr' = [wr EXCEPT !.phase = "returned",
                        !.join_logged = (wr.xdotool = "panicked"),
                        !.events = Append(@, "joined"),
                        !.returned = wr.output]
    /\ UNCHANGED WrapperRest

\* game_extractor.rs:234  while running_clone.load()
DismissCheck ==
    /\ wr.xdotool = "check"
    /\ wr' = [wr EXCEPT !.xdotool = IF wr.running THEN "attempt" ELSE "exited"]
    /\ UNCHANGED WrapperRest

\* An xdotool thread that gives up after an attempt that failed.
AfterAttemptStopOnError(outcome) == IF outcome = "silent" THEN "sleep" ELSE "exited"

\* The next statement of the xdotool thread after an attempt.
AfterAttempt(outcome) == "sleep"

Counted(n) == IF n < MaxAttempts THEN n + 1 ELSE n

\* game_extractor.rs:235-247  one "xdotool key Return"; its stderr or its
\* io::Error is printed.  println! panics when stdout is closed.
DismissAttempt ==
    /\ wr.xdotool = "attempt"
    /\ \E outcome \in AttemptOutcomes, printOk \in BOOLEAN :
          wr' = [wr EXCEPT !.attempts = Counted(@),
                           !.logged = IF outcome = "silent" THEN @ ELSE Counted(@),
                           !.xdotool = IF outcome # "silent" /\ ~printOk THEN "panicked"
                                       ELSE AfterAttempt(outcome)]
    /\ UNCHANGED WrapperRest

\* game_extractor.rs:249  thread::sleep(250 ms)
DismissSleep ==
    /\ wr.xdotool = "sleep"
    /\ wr' = [wr EXCEPT !.xdotool = "check"]
    /\ UNCHANGED WrapperRest

NextWrapper ==
    \/ SpawnExtractor
    \/ SpawnDismissal
    \/ ExtractorFinish
    \/ JoinExtractor
    \/ StoreStop
    \/ Grace
    \/ JoinDismissal
    \/ DismissCheck
    \/ DismissAttempt
    \/ DismissSleep

SpecWrapper == InitWrapper /\ [][NextWrapper]_vars

\* Event a has happened before event b, if b has happened at all.
Before(a, b) ==
    \A j \in DOMAIN wr.events :
        wr.events[j] = b => \E i \in 1..(j - 1) : wr.events[i] = a

\* What C14 says of the stop signal and of the join: the stop flag is set
\* only after the extractor task has completed, and the dismissal task is
\* joined only after the grace period that follows the stop signal.
StopAndJoinOrder ==
    /\ ~wr.running => wr.extractor = "done"
    /\ Before("extractor_done", "stop")
    /\ Before("stop", "grace_over")
    /\ Before("grace_over", "joined")

\* C14 as stated: the dismissal task is started before the extractor task,
\* the stop flag is set only after the extractor task has completed, and
\* the dismissal task is joined only after the grace period.
C14_DismissalStartedFirst ==
    (wr.phase # "idle") =>
        /\ Before("dismissal_started", "extractor_started")
        /\ StopAndJoinOrder

\* C14, amended: the extractor task is started first and the dismissal task
\* after it; the stop flag is set only after the extractor task has
\* completed, and the dismissal task is joined only after the grace period
\* that follows the stop signal.
C14_ExtractorStartedFirst ==
    (wr.phase # "idle") =>
        /\ Before("extractor_started", "dismissal_started")
        /\ StopAndJoinOrder

\* The wrapper returned after stopping and joining the dismissal task.
C14_Witness ==
    /\ wr.phase = "returned"
    /\ wr.events = << "extractor_started", "dismissal_started", "extractor_done",
                      "stop", "grace_over", "joined" >>

\* C15: the result the wrapper returns is the extractor task's result; a
\* failing dismissal attempt or a failing join is only logged, does not
\* change the returned result, and does not end the dismissal task while
\* the extractor is still running.
C15_ReturnsExtractorResult ==
    (wr.phase # "idle") =>
        /\ wr.phase = "returned" => wr.returned = wr.output /\ wr.extractor = "done"
        /\ wr.phase # "returned" => wr.returned = ""
        /\ (wr.xdotool = "exited") => wr.extractor = "done"

\* The wrapper returned the extractor's exit after dismissal attempts failed
\* and the join of the dismissal task failed as well.
C15_Witness ==
    /\ wr.phase = "returned"
    /\ wr.returned = "exit_0"
    /\ wr.logged >= 1
    /\ wr.join_logged

(***************************************************************************)
(* Further properties of the pipeline                                      *)
(***************************************************************************)

\* C20 as stated: when the input root does not exist, the run aborts with
\* the missing-input-root error, which names the input path, and not with
\* the error of another stage.
C20_MissingRootReported ==
    (~input_dir.exists /\ pc # "idle") =>
        /\ pc \in {"detect", "check_input", "failed"}
        /\ pc = "failed" => error = [stage |-> "input_missing", subject |-> "input_dir"]

(***************************************************************************)
(* The prepare hooks on their own: SpecPrepare calls prepare_temp_directory*)
(* of a variant on a small working directory, twice.                       *)
(***************************************************************************)

\* The largest number of files in a working directory of SpecPrepare.
MaxPrepareFiles == 3

\* How many times in a row the hook is called.
MaxPrepareRuns == 2

\* Files in the folders the hooks look for, and one the hooks produce.
PreparePaths ==
    { <<"data", "game.dir">>, <<"Data", "avi.dir">>, <<"xtras", "x.x32">>,
      <<"movies", "02.dxr">>, <<"Xtras", "y.x32">> }

PrepareTrees ==
    {TreeOfFiles(S) : S \in {T \in SUBSET PreparePaths : Cardinality(T) <= MaxPrepareFiles}}

InitPrepare ==
    /\ pr \in {[phase |-> "ready", variant |-> v, dir |-> t, prev |-> t, runs |-> 0,
                lastOk |-> FALSE, prevOk |-> FALSE, ioOk |-> TRUE] :
                    v \in Registered, t \in PrepareTrees}
    /\ det = DetectIdle
    /\ dd = DedupIdle
    /\ mv = MoveIdle
    /\ im = ImageIdle
    /\ wr = WrapperIdle
    /\ rn = RunsIdle
    /\ PipelineIdle

\* One call of the variant's prepare_temp_directory on the directory as the
\* previous call left it.
RunPrepare ==
    /\ pr.phase \in {"ready", "ran"}
    /\ pr.runs < MaxPrepareRuns
    /\ \E ioOk \in BOOLEAN, data \in DataChoice(pr.dir) :
          LET r == prepare_temp_directory(pr.variant, pr.dir, data, ioOk)
          IN  pr' = [pr EXCEPT !.phase = "ran", !.dir = r.tree, !.prev = pr.dir,
                               !.runs = @ + 1, !.lastOk = r.ok, !.prevOk = pr.lastOk,
                               !.ioOk = @ /\ ioOk]
    /\ UNCHANGED <<det, dd, mv, im, wr, rn, pipeline>>

NextPrepare == RunPrepare

SpecPrepare == InitPrepare /\ [][NextPrepare]_vars

\* C17 as stated: every variant's prepare hook succeeds when its optional
\* folders (data, xtras, movies) are absent, and is idempotent: a second
\* call on the directory left by a first successful call also succeeds and
\* leaves the directory unchanged.  (No system call on an existing entry
\* fails.)
C17_PrepareToleratesAbsentFolders ==
    (pr.phase = "ran" /\ pr.ioOk) =>
        /\ pr.lastOk
        /\ (pr.runs = 2 /\ pr.prevOk) => pr.dir = pr.prev

\* The top-level files the extraction left whose extension is one of exts.
ExtractedOfKind(exts) ==
    {p \in TopLevelFiles(hist.extracted) :
        \E x \in exts : extension(file_name(p)) = Some(x)}

\* The file is in the output tree at the demangled path of name, with the
\* given content.
RelocatedAs(name, ext, content) ==
    LET at == BelowRoot(demangle(name, output_dir, ext))
    IN  at \in DOMAIN out_tree.files /\ out_tree.files[at] = content

\* C16 as stated: after a successful run every audio asset and every
\* plain-text asset that was in the working directory after extraction is
\* at its demangled path under the output root, content and extension
\* unchanged.
C16_AudioAndTextRelocated ==
    (pc = "done") =>
        \A p \in ExtractedOfKind({"wav", "txt"}) :
            RelocatedAs(p[1], None, hist.extracted.files[p])

\* The stages of main after deduplication and the purge.
LaterStages ==
    { "find_bmp", "process_image", "post_hook", "create_output", "move_image",
      "find_wav", "move_wav", "cleanup" }

DedupWarned == \E i \in DOMAIN log : log[i].warning = "dedup"

\* C18: a failure of the deduplication stage (the directory cannot be read,
\* a file cannot be hashed or deleted) is not fatal: a warning is printed
\* and the run goes on with the purge, image processing and relocation, on
\* the pool as remove_duplicates left it, which has lost no content.
C18_DedupFailureIsNotFatal ==
    (hist.dedup = "failed") =>
        /\ DedupWarned
        /\ pc \in {"purge", "find_bmp", "process", "post_hook", "move_images",
                   "move_wav", "done", "failed"}
        /\ pc = "failed" => error.stage \in LaterStages
        /\ pc = "purge" =>
              /\ \A p \in DOMAIN temp_dir.files :
                    /\ p \in DOMAIN hist.extracted.files
                    /\ temp_dir.files[p] = hist.extracted.files[p]
              /\ \A p \in DOMAIN hist.extracted.files :
                    \E q \in DOMAIN temp_dir.files :
                        temp_dir.files[q] = hist.extracted.files[p]

\* A run whose deduplication failed went on and relocated files.
C18_Witness ==
    /\ pc = "done"
    /\ hist.dedup = "failed"
    /\ DedupWarned
    /\ DOMAIN out_tree.files # {}

\* The names of the images handed to process_image so far.
ImagesSeen == {file_name(p) : p \in images.todo \cup images.ok \cup images.failed}

\* Every name on the broken-image list of some variant.
BrokenNames ==
    UNION { {get_broken_images(v)[i] : i \in DOMAIN get_broken_images(v)} : v \in Registered }

\* Where a processed image of that name is relocated to, per format.
BrokenDestinations ==
    [name \in BrokenNames |->
        {BelowRoot(demangle(name, output_dir, Some(extensions_str(format)))) :
            format \in {Bmp, WebP, Png}}]

\* The listed broken image is among the images processed, or in the output.
ProcessedOrRelocated(name) ==
    \/ name \in ImagesSeen
    \/ BrokenDestinations[name] \cap DOMAIN out_tree.files # {}

PurgeWarned(name) ==
    \E i \in DOMAIN log : log[i].warning = "purge" /\ log[i].subject = name

\* What C19 says of the attempts: deletion is attempted for every entry of
\* the selected variant's list, after extraction and before image
\* processing; an entry that is not removed gives a warning only, and the
\* entries after it are still attempted.
PurgeAttemptsAll ==
    LET listed == get_broken_images(game.game)
    IN  /\ hist.purge # <<>> => hist.extracted.exists
        /\ (images # NoImages \/ pc \in {"find_bmp", "process"}) =>
              /\ Len(hist.purge) = Len(listed)
              /\ \A i \in DOMAIN listed :
                    /\ hist.purge[i].name = listed[i]
                    /\ hist.purge[i].outcome # "removed" => PurgeWarned(listed[i])
        /\ error.stage # "purge"

\* C19 as stated: every listed entry is attempted, a missing one is warned
\* about, and no listed broken asset is ever processed or relocated.
C19_NoBrokenAssetProcessed ==
    game.ok =>
        /\ PurgeAttemptsAll
        /\ \A i \in DOMAIN get_broken_images(game.game) :
              ~ProcessedOrRelocated(get_broken_images(game.game)[i])

\* C19, amended: every listed entry is attempted, one that is missing or
\* cannot be deleted is warned about, and a listed broken asset is
\* processed or relocated only when its deletion failed.
C19_BrokenAssetProcessedOnlyIfUndeleted ==
    game.ok =>
        /\ PurgeAttemptsAll
        /\ \A i \in DOMAIN get_broken_images(game.game) :
              ProcessedOrRelocated(get_broken_images(game.game)[i]) =>
                  /\ i \in DOMAIN hist.purge
                  /\ hist.purge[i].outcome = "failed"

\* A run that removed a listed broken image that was there, warned about
\* the ones that were not, and relocated other images.
C19_Witness ==
    /\ pc = "done"
    /\ \E i \in DOMAIN hist.purge :
          /\ hist.purge[i] = [name |-> "berlin--Animationer__sickan0042.bmp",
                              outcome |-> "removed"]
    /\ PurgeWarned("berlin--Animationer__harry0000-166.bmp")
    /\ ~ProcessedOrRelocated("berlin--Animationer__sickan0042.bmp")
    /\ DOMAIN out_tree.files # {}

(***************************************************************************)
(* The order of the stages                                                 *)
(***************************************************************************)

\* The stages of a run, in the order the specification gives them.
StageOrder ==
    << "detect", "stage", "extract", "dedupe", "purge-broken", "process-images",
       "post-hook", "reconstruct", "cleanup" >>

\* The stage that main is in at each of its positions; the checks between
\* detection and the creation of the working directory belong to staging,
\* and main is past the cleanup when it has returned Ok.
StageAt(at) ==
    CASE at = "detect" -> "detect"
      [] at \in {"check_input", "check_wine", "create_temp", "stage"} -> "stage"
      [] at \in {"find_archives", "extract_launch", "extract_wait"} -> "extract"
      [] at = "dedup" -> "dedupe"
      [] at = "purge" -> "purge-broken"
      [] at \in {"find_bmp", "process"} -> "process-images"
      [] at = "post_hook" -> "post-hook"
      [] at \in {"move_images", "move_wav"} -> "reconstruct"
      [] at = "done" -> "cleanup"

StageRank(at) == CHOOSE i \in DOMAIN StageOrder : StageOrder[i] = StageAt(at)

\* What has to be finished when main enters the stage it is in.
PreviousStageFinished ==
    CASE StageAt(pc) = "stage" -> game.ok
      [] StageAt(pc) = "extract" ->
            <<"dir_extractor.exe">> \in DOMAIN temp_dir.files
      [] StageAt(pc) = "dedupe" ->
            /\ archives.next = Len(archives.found) + 1
            /\ Len(ExtractorRuns) = Len(archives.found)
            /\ \A i \in DOMAIN procs : procs[i].state = "exited"
      [] StageAt(pc) = "purge-broken" -> hist.dedup # ""
      [] StageAt(pc) = "process-images" ->
            Len(hist.purge) = Len(get_broken_images(game.game))
      [] StageAt(pc) = "post-hook" ->
            /\ images.todo = {} /\ images.failed = {}
            /\ {<<processed_files[i].path>> : i \in DOMAIN processed_files} = images.ok
      [] StageAt(pc) = "reconstruct" -> out_tree.exists
      [] StageAt(pc) = "cleanup" ->
            /\ moves.next = Len(moves.wav_files) + 1
            /\ ~temp_dir.exists
      [] OTHER -> TRUE

\* One step of a run that has not failed: main stays in its stage or goes
\* on to the next one, which it enters with the previous one finished.
StageStep ==
    (pc' # "failed") =>
        /\ pc # "failed"
        /\ StageRank(pc') \in {StageRank(pc), StageRank(pc) + 1}
        /\ PreviousStageFinished'

\* C22: in every run that does not fail the stages occur in the order
\* detect, stage, extract, dedupe, purge-broken, process-images, post-hook,
\* reconstruct paths, cleanup; none is skipped, each starts only after the
\* one before it has finished, and every image worker has completed before
\* the post-hook begins.
C22_StagesInOrder == [][StageStep]_vars

\* A successful run over two archives and two images has reached the end.
C22_Witness ==
    /\ pc = "done"
    /\ Len(ExtractorRuns) = 2
    /\ Len(processed_files) >= 2
    /\ Len(moves.wav_files) >= 1

(***************************************************************************)
(* Consecutive runs of main and their working directories.  SpecRuns       *)
(* follows what a run does to /tmp/cgex_<pid> (main.rs:313-332 and 411),   *)
(* one run after the other on one machine.                                 *)
(***************************************************************************)

\* How many runs of main follow one another.
MaxRuns == 3

\* The values std::process::id() may return: the operating system gives a
\* new process any id that no live process holds, so a later run may get
\* the id of an earlier one that has exited.
ProcessIds == {4242, 4243}

\* The input roots of the runs.
RunInputs ==
    { Disc({<<"Data", "berlin.dir">>}, {}),
      Disc({<<"data", "game.dir">>, <<"data", "avi.dir">>}, {}) }

\* main.rs:313  env::temp_dir().join(format!("cgex_{}", std::process::id()))
TempDirOf(tmp, id) == tmp[id]

\* No run is in progress.
BetweenRuns(tmp, n) ==
    [phase |-> "start", runs |-> n, pid |-> 0, input |-> NoTree, tmp |-> tmp,
     atStaging |-> NoTree, archives |-> <<>>]

InitRuns ==
    /\ rn = BetweenRuns([id \in ProcessIds |-> NoTree], 0)
    /\ det = DetectIdle
    /\ dd = DedupIdle
    /\ mv = MoveIdle
    /\ im = ImageIdle
    /\ wr = WrapperIdle
    /\ pr = PrepareIdle
    /\ PipelineIdle

RunsRest == <<det, dd, mv, im, wr, pr, pipeline>>

\* A run that returns Err from main: nothing is removed.
RunFails == rn' = BetweenRuns(rn.tmp, rn.runs)

\* main.rs:278-314  a process is started, gets its id, and creates its
\* working directory; create_dir_all also succeeds on a directory that is
\* already there.
RunCreateTemp ==
    /\ rn.phase = "start"
    /\ rn.runs < MaxRuns
    /\ \E id \in ProcessIds, root \in RunInputs, ioOk \in BOOLEAN :
          IF ioOk
          THEN LET made == CreateDirAll(TempDirOf(rn.tmp, id), <<>>)
               IN  rn' = [rn EXCEPT !.phase = "created", !.runs = @ + 1, !.pid = id,
                                    !.input = root, !.tmp[id] = made,
                                    !.atStaging = made]
          ELSE rn' = BetweenRuns(rn.tmp, rn.runs + 1)
    /\ UNCHANGED RunsRest

\* main.rs:316-317  the data directory of the input is copied into the
\* working directory; an error ends the run.
RunStage ==
    /\ rn.phase = "created"
    /\ \E data \in DataDirs(rn.input), ioOk \in BOOLEAN :
          LET copied == copy_directory(rn.input, data, TempDirOf(rn.tmp, rn.pid), <<>>, ioOk)
          IN  IF copied.ok
              THEN rn' = [rn EXCEPT !.phase = "staged", !.tmp[rn.pid] = copied.tree]
              ELSE rn' = BetweenRuns([rn.tmp EXCEPT ![rn.pid] = copied.tree], rn.runs)
    /\ UNCHANGED RunsRest

RECURSIVE ExtractAll(_, _, _)
\* The working directory after the extractor has run on each of the
\* archives from the i-th on.
ExtractAll(tree, found, i) ==
    IF i > Len(found) THEN tree
    ELSE LET assets == Assets(file_name(found[i]))
         IN  ExtractAll(WriteAssets(tree, assets, Len(assets)), found, i + 1)

\* main.rs:332, 161-182  extract_files runs the extractor on every archive
\* that find_files lists in the working directory.
RunExtract ==
    /\ rn.phase = "staged"
    /\ \E ok \in BOOLEAN :
          LET found == find_files(TempDirOf(rn.tmp, rn.pid), "dir")
          IN  IF ok /\ Len(found) > 0
              THEN rn' = [rn EXCEPT !.phase = "extracted", !.archives = found,
                                    !.tmp[rn.pid] = ExtractAll(@, found, 1)]
              ELSE RunFails
    /\ UNCHANGED RunsRest

\* main.rs:334-414  the statements after the extraction: any of them may
\* return Err, which ends the run; the last one removes the working
\* directory.
RunFinish ==
    /\ rn.phase = "extracted"
    /\ \E ok \in BOOLEAN :
          IF ok
          THEN rn' = BetweenRuns([rn.tmp EXCEPT ![rn.pid] = RemoveDirAll(@, <<>>)], rn.runs)
          ELSE RunFails
    /\ UNCHANGED RunsRest

NextRuns ==
    \/ RunCreateTemp
    \/ RunStage
    \/ RunExtract
    \/ RunFinish

SpecRuns == InitRuns /\ [][NextRuns]_vars

\* The top-level files that staging copies from the run's own input.
OwnStaged ==
    UNION {{Rebase(p, d, <<>>) : p \in FilesBelow(rn.input, d)} : d \in DataDirs(rn.input)}

\* C23 as stated: the working directory a run stages into holds no file
\* left by another run, and every archive the run extracts comes from its
\* own input.
C23_WorkingDirectoryExclusive ==
    /\ rn.phase \in {"created", "staged", "extracted"} =>
          DOMAIN rn.atStaging.files = {}
    /\ rn.phase = "extracted" =>
          \A i \in DOMAIN rn.archives : rn.archives[i] \in OwnStaged

\* The variant whose legacy runtime raises the modal dialog.
DialogVariant == MulleBil

\* The dismissal subprocesses ("xdotool key Return") launched so far.
DismissalRuns == SelectSeq(procs, LAMBDA r : r.cmd = "xdotool")

\* C24 as stated: every archive is extracted through the run_extractor hook
\* of the selected variant, and for the variant with the modal dialog a
\* dismissal task accompanies every extractor invocation.
C24_ExtractionThroughVariantHook ==
    /\ \A i \in DOMAIN hist.calls : hist.calls[i].callee = VariantHook(game.game)
    /\ (game.game = DialogVariant /\ ExtractorRuns # <<>>) => DismissalRuns # <<>>

\* C25 as stated, for the runs that end: on every path through the wrapper,
\* the path on which the extractor task ends with an io::Error included,
\* the stop flag has been set and the dismissal task has terminated by the
\* time the wrapper has returned.
C25_DismissalEndsOnEveryPath ==
    (wr.phase = "returned") =>
        /\ ~wr.running
        /\ wr.xdotool \in {"exited", "panicked"}

\* The frame that the Mjolner post hook duplicates, and the name of the copy.
Vanheden700 == "berlin--Animationer__vanheden700.bmp"
Vanheden707(format) == "berlin--Animationer__vanheden707." \o extensions_str(format)

\* C26 as stated: when a successful run of the Mjolner variant processed
\* the vanheden700 frame, the output tree holds the copy under the
\* vanheden707 name at its demangled path.
C26_AlternateFrameRelocated ==
    (pc = "done" /\ game.game = JonssonMjolner) =>
        \A i \in DOMAIN processed_files :
            processed_files[i].path = Vanheden700 =>
                BelowRoot(demangle(Vanheden707(processed_files[i].format), output_dir, None))
                    \in DOMAIN out_tree.files

(***************************************************************************)
(* Relocation of several files: SpecMoveAll runs the two loops of          *)
(* main.rs:397-408 over a working directory of bounded size.               *)
(***************************************************************************)

\* How many files the working directory of SpecMoveAll holds at most.
MaxMoved == 2

\* Names in the extractor's flat convention (archive--cast__member), with
\* and without a leading "-" of the member, and with more or fewer
\* separators.
PoolStems ==
    { "a--b__c", "a--b__-c", "a--b--c", "a--b__c__d", "a--b__c--d", "a--c", "c" }

PoolNames == {s \o x : s \in PoolStems, x \in {".bmp", ".wav"}}

\* A working directory after image processing: each file holds what is its
\* own.
PoolTree(names) ==
    [exists |-> TRUE, files |-> [p \in {<<n>> : n \in names} |-> <<"content", p[1]>>],
     dirs |-> {}]

\* main.rs:397-408  what is moved, in order: the processed images in the
\* order of bmp_files, then the sounds in the order of wav_files, with the
\* extension each is moved with.
MoveQueue(tree, format) ==
    LET bmp == find_files(tree, "bmp")
        wav == find_files(tree, "wav")
    IN  [i \in DOMAIN bmp |-> [name |-> file_name(bmp[i]),
                               ext |-> Some(extensions_str(format))]]
        \o [i \in DOMAIN wav |-> [name |-> file_name(wav[i]), ext |-> None]]

InitMoveAll ==
    /\ mv \in {[phase |-> "moving", temp |-> PoolTree(S), out |-> EmptyTree,
                queue |-> MoveQueue(PoolTree(S), f), next |-> 1, moved |-> <<>>] :
                    S \in {T \in SUBSET PoolNames : Cardinality(T) \in 1..MaxMoved},
                    f \in {Bmp, WebP, Png}}
    /\ det = DetectIdle
    /\ dd = DedupIdle
    /\ im = ImageIdle
    /\ wr = WrapperIdle
    /\ pr = PrepareIdle
    /\ rn = RunsIdle
    /\ PipelineIdle

\* main.rs:397-408  one iteration of the loops: move_file_to_output on the
\* next file; an Err ends the run.
MoveNext ==
    /\ mv.phase = "moving"
    /\ mv.next <= Len(mv.queue)
    /\ \E io \in MoveIo :
          LET f == mv.queue[mv.next]
              r == move_file_to_output(mv.temp, mv.out, f.name, f.ext, io)
          IN  mv' = IF r.ok
                    THEN [mv EXCEPT !.temp = r.temp, !.out = r.out, !.next = @ + 1,
                                    !.moved = Append(@, [name |-> f.name,
                                                         at |-> BelowRoot(r.dst)])]
                    ELSE [mv EXCEPT !.phase = "failed", !.temp = r.temp, !.out = r.out]
    /\ UNCHANGED <<det, dd, im, wr, pr, rn, pipeline>>

\* main.rs:410-414  both loops are over.
MoveAllDone ==
    /\ mv.phase = "moving"
    /\ mv.next > Len(mv.queue)
    /\ mv' = [mv EXCEPT !.phase = "done"]
    /\ UNCHANGED <<det, dd, im, wr, pr, rn, pipeline>>

NextMoveAll ==
    \/ MoveNext
    \/ MoveAllDone

SpecMoveAll == InitMoveAll /\ [][NextMoveAll]_vars

\* C27 as stated: different files moved in one run have different
\* destinations, and no relocated file is overwritten by a later one: each
\* is in the output tree with its own content.
C27_DistinctDestinations ==
    (mv.phase \in {"moving", "done", "failed"}) =>
        /\ \A i \in DOMAIN mv.moved, j \in DOMAIN mv.moved :
              i # j => mv.moved[i].at # mv.moved[j].at
        /\ \A i \in DOMAIN mv.moved :
              /\ mv.moved[i].at \in DOMAIN mv.out.files
              /\ mv.out.files[mv.moved[i].at] = <<"content", mv.moved[i].name>>

\* The top-level files of a tree that detection's rule counts as archives:
\* extension "dir" in any letter case (main.rs:117-119).
DetectableArchives(tree) ==
    {file_name(p) : p \in
        {q \in TopLevelFiles(tree) :
            LET ext == extension(file_name(q))
            IN  ext.some /\ eq_ignore_ascii_case(ext.val, "dir")}}

\* How many times the extractor was launched on an archive.
TimesExtracted(name) ==
    Cardinality({i \in DOMAIN ExtractorRuns : ExtractorRuns[i].arg = name})

\* C28 as stated: every top-level file of the staged working directory with
\* extension "dir" in any letter case is passed to the extractor exactly
\* once, and extraction does not report that there are no archives while
\* there is such a file.
C28_EveryDetectedArchiveExtracted ==
    /\ (pc = "failed" /\ error.stage = "no_archives") =>
          DetectableArchives(temp_dir) = {}
    /\ (pc = "dedup") =>
          \A name \in DetectableArchives(temp_dir) : TimesExtracted(name) = 1

====
